---- MODULE Spec2Model ----
(***************************************************************************)
(* Model of the course cleaner of json-kurs-fetcher (src/vhs_clean.py):    *)
(* process_course, the schedule extractor extract_times and the            *)
(* description pipeline extract_description, transform_payload, and of the *)
(* scraper (src/vhs_scraper.py): iterate_courses, parse_course_safe and    *)
(* fetch.                                                                  *)
(*                                                                         *)
(* A string is a sequence of characters, a character a one-letter TLA+     *)
(* string.  Markup (the beschreibung field, the rendered description) is a *)
(* sequence of tokens: a start tag, an end tag, a void tag or one          *)
(* character of text.  A parsed document is a sequence of nodes; a node is *)
(* a record [id, tag, attrs, text, kids], a text node                      *)
(* (bs4.NavigableString) has tag "#text".  Attributes are a sequence of    *)
(* [name, value] records in source order.                                  *)
(***************************************************************************)
EXTENDS Integers, Sequences, FiniteSets, TLC

VARIABLES
    payload,      \* the input of transform_payload
    processed,    \* processed_courses, as far as the comprehension has come
    output,       \* what transform_payload returns
    course,       \* the input course object (process_course's argument)
    pc,           \* position inside process_course
    soup,         \* the parsed document (children of the BeautifulSoup object)
    schedule,     \* what extract_times read from the labeled table
    times,        \* times_payload: result of extract_times
    collected,    \* blocks as collect_blocks returns them
    filtered,     \* blocks as filter_admin_blocks returns them
    trimmed,      \* blocks as truncate_after_stop_keywords returns them
    titled,       \* blocks as ensure_title_block returns them
    description,  \* the rendered description (markup)
    result,       \* course_copy, the returned record
    debug,        \* DEBUG_MODE of the scraper
    links,        \* course_links of iterate_courses
    index,        \* the link the loop of iterate_courses is at
    scraped,      \* courses, the list iterate_courses returns
    spc,          \* position inside the scraper
    attempt,      \* the loop variable of fetch
    history,      \* the responses the running call of fetch has received
    fetched,      \* what the last call of fetch returned
    ret,          \* the caller fetch returns to
    html,         \* the local html of parse_course_safe
    pre_title,    \* the local pre_title of parse_course_safe
    errors        \* the links log_debug_error has written to debug/errors.jsonl

\* the variables of the cleaner (src/vhs_clean.py)
cleaner == <<payload, processed, output, course, pc, soup, schedule, times, collected, filtered, trimmed, titled, description, result>>

\* the variables of the scraper (src/vhs_scraper.py)
scraper == <<debug, links, index, scraped, spc, attempt, history, fetched, ret, html, pre_title, errors>>

vars == <<payload, processed, output, course, pc, soup, schedule, times, collected, filtered, trimmed, titled, description, result,
          debug, links, index, scraped, spc, attempt, history, fetched, ret, html, pre_title, errors>>

-----------------------------------------------------------------------------
(* Vocabulary                                                              *)

ADMIN_ALWAYS_KEYWORDS ==
    { <<"i", "b", "a", "n">>,
      <<"b", "i", "c">>,
      <<"b", "a", "n", "k", "v", "e", "r", "b", "i", "n", "d", "u", "n", "g">>,
      <<"n", "a", "m", "e", " ", "d", "e", "r", " ", "b", "a", "n", "k">>,
      <<"k", "o", "n", "t", "o", "i", "n", "h", "a", "b", "e", "r">> }

ADMIN_PREFIX_KEYWORDS ==
    { <<"z", "a", "h", "l", "u", "n", "g", "s", "b", "e", "d", "i", "n", "g", "u", "n", "g", "e", "n">>,
      <<"t", "e", "i", "l", "n", "a", "h", "m", "e", "b", "e", "d", "i", "n", "g", "u", "n", "g", "e", "n">>,
      <<"g", "e", "b", "ü", "h", "r", "e", "n", "o", "r", "d", "n", "u", "n", "g">>,
      <<"r", "ü", "c", "k", "t", "r", "i", "t", "t">>,
      <<"h", "a", "f", "t", "u", "n", "g">>,
      <<"z", "a", "h", "l", "u", "n", "g">> }

ALLOWED_BLOCK_TAGS == {"p", "ul", "ol", "h1", "h2", "h3", "h4", "h5", "h6", "blockquote"}

ALLOWED_INLINE_TAGS == {"strong", "em", "b", "i", "u", "sup", "sub", "span", "a", "code"}

ALLOWED_LIST_TAGS == {"li"}

ALLOWED_TAGS == ALLOWED_BLOCK_TAGS \cup ALLOWED_INLINE_TAGS \cup ALLOWED_LIST_TAGS \cup {"br"}

\* ALLOWED_ATTRIBUTES.get(tag.name, set())
ALLOWED_ATTRIBUTES(name) == IF name = "a" THEN {"href", "title"} ELSE {}

REMOVED_TAGS == {"script", "style", "picture", "figure", "img", "svg", "header", "footer", "noscript"}

STOP_KEYWORDS ==
    { <<"z", "e", "i", "t", "e", "n">>,
      <<"a", "n", "z", "a", "h", "l">>,
      <<"t", "e", "r", "m", "i", "n", "e">>,
      <<"l", "e", "i", "t", "u", "n", "g">>,
      <<"n", "u", "m", "m", "e", "r">>,
      <<"o", "r", "t">>,
      <<"p", "r", "e", "i", "s">> }

-----------------------------------------------------------------------------
(* Python string operations                                                *)

\* the en dash (U+2013), a character the module's own text cannot hold
EN_DASH == "--"

\* the characters matched by \s and removed by str.strip()
IsSpace(c) == c \in {" ", "\n", "\t"}

UpperChars == <<"A", "B", "C", "D", "E", "F", "G", "H", "I", "J", "K", "L", "M",
                "N", "O", "P", "Q", "R", "S", "T", "U", "V", "W", "X", "Y", "Z", "Ü">>
LowerChars == <<"a", "b", "c", "d", "e", "f", "g", "h", "i", "j", "k", "l", "m",
                "n", "o", "p", "q", "r", "s", "t", "u", "v", "w", "x", "y", "z", "ü">>

\* str.lower() on one character
LowerChar(c) ==
    IF \E i \in 1..Len(UpperChars) : UpperChars[i] = c
    THEN LowerChars[CHOOSE i \in 1..Len(UpperChars) : UpperChars[i] = c]
    ELSE c

\* str.lower()
lower(s) == [i \in 1..Len(s) |-> LowerChar(s[i])]

\* str.startswith(prefix)
startswith(s, prefix) ==
    /\ Len(prefix) <= Len(s)
    /\ SubSeq(s, 1, Len(prefix)) = prefix

\* the Python test: needle in s
contains(s, needle) ==
    \E i \in 1..(Len(s) - Len(needle) + 1) : SubSeq(s, i, i + Len(needle) - 1) = needle

\* str.lstrip() / str.rstrip() / str.strip()
lstrip(s) ==
    IF \E i \in 1..Len(s) : ~IsSpace(s[i])
    THEN SubSeq(s, CHOOSE i \in 1..Len(s) : ~IsSpace(s[i]) /\ \A j \in 1..(i - 1) : IsSpace(s[j]), Len(s))
    ELSE <<>>

rstrip(s) ==
    IF \E i \in 1..Len(s) : ~IsSpace(s[i])
    THEN SubSeq(s, 1, CHOOSE i \in 1..Len(s) : ~IsSpace(s[i]) /\ \A j \in (i + 1)..Len(s) : IsSpace(s[j]))
    ELSE <<>>

strip(s) == rstrip(lstrip(s))

\* str.rstrip(" .")
rstrip_space_dot(s) ==
    IF \E i \in 1..Len(s) : s[i] \notin {" ", "."}
    THEN SubSeq(s, 1, CHOOSE i \in 1..Len(s) :
                         s[i] \notin {" ", "."} /\ \A j \in (i + 1)..Len(s) : s[j] \in {" ", "."})
    ELSE <<>>

\* concatenation of a sequence of sequences
RECURSIVE FlattenRange(_, _, _)
FlattenRange(ss, lo, hi) ==
    IF lo > hi THEN <<>>
    ELSE IF lo = hi THEN ss[lo]
    ELSE FlattenRange(ss, lo, (lo + hi) \div 2) \o FlattenRange(ss, (lo + hi) \div 2 + 1, hi)

Flatten(ss) == FlattenRange(ss, 1, Len(ss))

\* re.sub(r"\s+", " ", value): every run of whitespace becomes one space
collapse_whitespace(s) ==
    Flatten([i \in 1..Len(s) |->
        IF ~IsSpace(s[i]) THEN <<s[i]>>
        ELSE IF i > 1 /\ IsSpace(s[i - 1]) THEN <<>>
        ELSE <<" ">>])

normalize_whitespace(value) == strip(collapse_whitespace(value))

\* sep.join(parts) for a sequence of strings
join(sep, parts) ==
    Flatten([i \in 1..Len(parts) |-> IF i = 1 THEN parts[i] ELSE sep \o parts[i]])

Range(s) == {s[i] : i \in 1..Len(s)}

-----------------------------------------------------------------------------
(* Nodes, bs4 tree reads                                                   *)

SrcId(n) == [o |-> "src", n |-> n]
NewId(kind, base) == [o |-> kind, n |-> base.n]

TextNode(id, text) == [id |-> id, tag |-> "#text", attrs |-> <<>>, text |-> text, kids |-> <<>>]
TagNode(id, tag, attrs, kids) == [id |-> id, tag |-> tag, attrs |-> attrs, text |-> <<>>, kids |-> kids]

IsText(n) == n.tag = "#text"
IsTag(n) == n.tag # "#text"

\* Tag.descendants restricted to strings (Tag._all_strings), in document order
RECURSIVE all_strings(_)
all_strings(n) ==
    IF IsText(n) THEN <<n>>
    ELSE Flatten([i \in 1..Len(n.kids) |-> all_strings(n.kids[i])])

\* Tag.find_all(True) plus the strings: every node below n, in document order
RECURSIVE descendants(_)
descendants(n) ==
    Flatten([i \in 1..Len(n.kids) |-> <<n.kids[i]>> \o descendants(n.kids[i])])

NonEmpty(s) == s # <<>>

\* Tag.get_text(sep): the strings joined by sep
get_text(n, sep) ==
    LET ss == all_strings(n)
    IN  join(sep, [i \in 1..Len(ss) |-> ss[i].text])

\* Tag.get_text(sep, strip=True): each string stripped, the empty ones skipped
get_text_strip(n, sep) ==
    LET ss == all_strings(n)
    IN  join(sep, SelectSeq([i \in 1..Len(ss) |-> strip(ss[i].text)], NonEmpty))

\* normalize_whitespace(block.get_text(" ", strip=True)), the text the filters read
block_text(b) == normalize_whitespace(get_text_strip(b, <<" ">>))

-----------------------------------------------------------------------------
(* Markup: Tag.decode and BeautifulSoup(markup, "html.parser")             *)

VOID_TAGS == {"br", "img"}

OpenTok(tag, attrs) == [k |-> "open", tag |-> tag, attrs |-> attrs, ch |-> ""]
VoidTok(tag, attrs) == [k |-> "void", tag |-> tag, attrs |-> attrs, ch |-> ""]
CloseTok(tag) == [k |-> "close", tag |-> tag, attrs |-> <<>>, ch |-> ""]
CharTok(c) == [k |-> "text", tag |-> "", attrs |-> <<>>, ch |-> c]

\* a string as markup text
Chars(s) == [i \in 1..Len(s) |-> CharTok(s[i])]

\* Tag.decode(): the markup of one node
RECURSIVE decode(_)
decode(n) ==
    IF IsText(n) THEN Chars(n.text)
    ELSE IF n.tag \in VOID_TAGS THEN <<VoidTok(n.tag, n.attrs)>>
    ELSE <<OpenTok(n.tag, n.attrs)>>
         \o Flatten([i \in 1..Len(n.kids) |-> decode(n.kids[i])])
         \o <<CloseTok(n.tag)>>

decode_all(nodes) == Flatten([i \in 1..Len(nodes) |-> decode(nodes[i])])

\* str.strip() on markup: leading and trailing whitespace characters go
IsSpaceTok(t) == t.k = "text" /\ IsSpace(t.ch)

lstrip_markup(m) ==
    IF \E i \in 1..Len(m) : ~IsSpaceTok(m[i])
    THEN SubSeq(m, CHOOSE i \in 1..Len(m) : ~IsSpaceTok(m[i]) /\ \A j \in 1..(i - 1) : IsSpaceTok(m[j]), Len(m))
    ELSE <<>>

rstrip_markup(m) ==
    IF \E i \in 1..Len(m) : ~IsSpaceTok(m[i])
    THEN SubSeq(m, 1, CHOOSE i \in 1..Len(m) : ~IsSpaceTok(m[i]) /\ \A j \in (i + 1)..Len(m) : IsSpaceTok(m[j]))
    ELSE <<>>

strip_markup(m) == rstrip_markup(lstrip_markup(m))

\* The parser keeps a stack of open tags; stack[1] is the document.  A frame
\* is the open tag with the children parsed so far.
Frame(id, tag, attrs) == [id |-> id, tag |-> tag, attrs |-> attrs, kids |-> <<>>]

AddKid(stack, kid) ==
    [stack EXCEPT ![Len(stack)].kids = Append(@, kid)]

\* the most recent open tag closes: it becomes a child of the one below
PopOne(stack) ==
    LET top == stack[Len(stack)]
    IN  AddKid(SubSeq(stack, 1, Len(stack) - 1), TagNode(top.id, top.tag, top.attrs, top.kids))

\* the open tags above depth close, innermost first
RECURSIVE PopDownTo(_, _)
PopDownTo(stack, depth) ==
    IF Len(stack) <= depth THEN stack ELSE PopDownTo(PopOne(stack), depth)

\* BeautifulSoup._popToTag: an end tag closes the most recent open tag of that
\* name with everything opened inside it; without such a tag it is ignored
handle_endtag(stack, name) ==
    LET open == {d \in 2..Len(stack) : stack[d].tag = name}
    IN  IF open = {} THEN stack
        ELSE PopDownTo(stack, (CHOOSE d \in open : \A e \in open : e <= d) - 1)

\* the end of the run of text that starts at token i: characters after
\* characters are collected into one NavigableString (endData)
text_end(toks, i) ==
    LET stops == {j \in i..Len(toks) : toks[j].k # "text"}
    IN  IF stops = {} THEN Len(toks)
        ELSE (CHOOSE j \in stops : \A m \in stops : j <= m) - 1

handle_data(stack, toks, i) ==
    IF i > 1 /\ toks[i - 1].k = "text" THEN stack
    ELSE AddKid(stack, TextNode(SrcId(i), [j \in 1..(text_end(toks, i) - i + 1) |-> toks[i + j - 1].ch]))

\* the parser's stack after token i
handle_token(stack, toks, i) ==
    LET t == toks[i]
    IN  CASE t.k = "text" -> handle_data(stack, toks, i)
          [] t.k = "open" -> Append(stack, Frame(SrcId(i), t.tag, t.attrs))
          [] t.k = "void" -> AddKid(stack, TagNode(SrcId(i), t.tag, t.attrs, <<>>))
          [] OTHER -> handle_endtag(stack, t.tag)

\* the parser's stack after the tokens lo..hi, fed in order
RECURSIVE feed(_, _, _, _)
feed(toks, lo, hi, stack) ==
    IF lo > hi THEN stack
    ELSE IF lo = hi THEN handle_token(stack, toks, lo)
    ELSE LET left == feed(toks, lo, (lo + hi) \div 2, stack)
         IN  IF left = <<>> THEN left
             ELSE feed(toks, (lo + hi) \div 2 + 1, hi, left)

\* BeautifulSoup(markup, "html.parser"): the children of the document
BeautifulSoup(markup) ==
    PopDownTo(feed(markup, 1, Len(markup), <<Frame(SrcId(0), "[document]", <<>>)>>), 1)[1].kids

-----------------------------------------------------------------------------
(* Tag sanitizer: clean_description_tree                                   *)

HasAttr(tag, name) == \E i \in 1..Len(tag.attrs) : tag.attrs[i].name = name

\* tag.get(name, ""): the value of the attribute, "" without it
Attr(tag, name) ==
    IF HasAttr(tag, name)
    THEN tag.attrs[CHOOSE i \in 1..Len(tag.attrs) : tag.attrs[i].name = name].value
    ELSE <<>>

\* str.split(sep) for a one-character separator
RECURSIVE split(_, _)
split(s, sep) ==
    IF \E i \in 1..Len(s) : s[i] = sep
    THEN LET i == CHOOSE i \in 1..Len(s) : s[i] = sep /\ \A j \in 1..(i - 1) : s[j] # sep
         IN  <<SubSeq(s, 1, i - 1)>> \o split(SubSeq(s, i + 1, Len(s)), sep)
    ELSE <<s>>

\* str.split(sep, 1)
split_once(s, sep) ==
    LET i == CHOOSE i \in 1..Len(s) : s[i] = sep /\ \A j \in 1..(i - 1) : s[j] # sep
    IN  <<SubSeq(s, 1, i - 1), SubSeq(s, i + 1, Len(s))>>

\* the class attribute as bs4 holds it: the list of the class names
RECURSIVE split_whitespace(_)
split_whitespace(s) ==
    LET t == lstrip(s)
    IN  IF t = <<>> THEN <<>>
        ELSE IF \E i \in 1..Len(t) : IsSpace(t[i])
        THEN LET i == CHOOSE i \in 1..Len(t) : IsSpace(t[i]) /\ \A j \in 1..(i - 1) : ~IsSpace(t[j])
             IN  <<SubSeq(t, 1, i - 1)>> \o split_whitespace(SubSeq(t, i, Len(t)))
        ELSE <<t>>

\* style_map.get(key): the value of the last "key: value" chunk of the style
style_get(raw_style, key) ==
    LET chunks == SelectSeq(split(raw_style, ";"), LAMBDA c : contains(c, <<":">>))
        hits == SelectSeq(chunks, LAMBDA c : lower(strip(split_once(c, ":")[1])) = key)
    IN  IF hits = <<>> THEN <<>>
        ELSE lower(strip(split_once(hits[Len(hits)], ":")[2]))

\* span_name reading the style alone
span_name_by_style(tag) ==
    LET font_weight == style_get(Attr(tag, "style"), <<"f", "o", "n", "t", "-", "w", "e", "i", "g", "h", "t">>)
        font_style == style_get(Attr(tag, "style"), <<"f", "o", "n", "t", "-", "s", "t", "y", "l", "e">>)
    IN  IF font_weight \in {<<"b", "o", "l", "d">>, <<"b", "o", "l", "d", "e", "r">>, <<"6", "0", "0">>, <<"7", "0", "0">>, <<"8", "0", "0">>, <<"9", "0", "0">>} THEN "strong"
        ELSE IF font_style \in {<<"i", "t", "a", "l", "i", "c">>, <<"o", "b", "l", "i", "q", "u", "e">>} THEN "em"
        ELSE "span"

\* the tag name convert_span_formatting leaves
span_name(tag) ==
    LET raw_style == Attr(tag, "style")
        classes == [i \in 1..Len(split_whitespace(Attr(tag, "class"))) |->
                        lower(split_whitespace(Attr(tag, "class"))[i])]
        font_weight == style_get(raw_style, <<"f", "o", "n", "t", "-", "w", "e", "i", "g", "h", "t">>)
        font_style == style_get(raw_style, <<"f", "o", "n", "t", "-", "s", "t", "y", "l", "e">>)
    IN  IF \/ font_weight \in {<<"b", "o", "l", "d">>, <<"b", "o", "l", "d", "e", "r">>, <<"6", "0", "0">>, <<"7", "0", "0">>, <<"8", "0", "0">>, <<"9", "0", "0">>}
           \/ \E i \in 1..Len(classes) : contains(classes[i], <<"b", "o", "l", "d">>)
        THEN "strong"
        ELSE IF \/ font_style \in {<<"i", "t", "a", "l", "i", "c">>, <<"o", "b", "l", "i", "q", "u", "e">>}
                \/ \E i \in 1..Len(classes) :
                      \/ classes[i] \in {<<"i", "t", "a", "l", "i", "c">>, <<"k", "u", "r", "s", "i", "v">>}
                      \/ contains(classes[i], <<"i", "t", "a", "l", "i", "c">>)
        THEN "em"
        ELSE "span"

convert_span_formatting(tag) ==
    IF tag.tag # "span" THEN tag
    ELSE [tag EXCEPT !.tag = span_name(tag),
                     !.attrs = SelectSeq(@, LAMBDA a : a.name \notin {"style", "class"})]

\* sanitize_attrs keeping the href as it was written
sanitize_attrs_untrimmed(name, attrs) ==
    SelectSeq(attrs, LAMBDA a : a.name \in ALLOWED_ATTRIBUTES(name))

\* the attributes sanitize_tag leaves on a tag it keeps
sanitize_attrs(name, attrs) ==
    LET allowed == SelectSeq(attrs, LAMBDA a : a.name \in ALLOWED_ATTRIBUTES(name))
        stripped == [i \in 1..Len(allowed) |->
                       IF name = "a" /\ allowed[i].name = "href"
                       THEN [allowed[i] EXCEPT !.value = strip(@)]
                       ELSE allowed[i]]
    IN  SelectSeq(stripped, LAMBDA a : ~(name = "a" /\ a.name = "href" /\ a.value = <<>>))

\* sanitize_tag: the nodes that stand in the tree in place of the tag
sanitize_tag(tag) ==
    LET t == convert_span_formatting(tag)
    IN  IF t.tag \notin ALLOWED_TAGS
        THEN t.kids
        ELSE <<[t EXCEPT !.attrs = sanitize_attrs(t.tag, t.attrs)]>>

\* for removable in root.find_all(REMOVED_TAGS): removable.decompose()
RECURSIVE decompose_removed(_)
decompose_removed(nodes) ==
    Flatten([i \in 1..Len(nodes) |->
        IF IsText(nodes[i]) THEN <<nodes[i]>>
        ELSE IF nodes[i].tag \in REMOVED_TAGS THEN <<>>
        ELSE <<[nodes[i] EXCEPT !.kids = decompose_removed(@)]>>])

\* for tag in root.find_all(True): sanitize_tag(tag)
RECURSIVE sanitize_all(_)
sanitize_all(nodes) ==
    Flatten([i \in 1..Len(nodes) |->
        IF IsText(nodes[i]) THEN <<nodes[i]>>
        ELSE sanitize_tag([nodes[i] EXCEPT !.kids = sanitize_all(@)])])

\* unwrap_block_wrappers: a paragraph with a block-level child is unwrapped.
\* The paragraphs are visited in document order, an outer one before the
\* ones inside it, so each is judged on the children it has after sanitizing.
block_like_children == (ALLOWED_BLOCK_TAGS \cup {"ul", "ol"}) \ {"p"}

RECURSIVE unwrap_block_wrappers(_)
unwrap_block_wrappers(nodes) ==
    Flatten([i \in 1..Len(nodes) |->
        LET n == nodes[i]
        IN  IF IsText(n) THEN <<n>>
            ELSE IF /\ n.tag = "p"
                    /\ \E j \in 1..Len(n.kids) : IsTag(n.kids[j]) /\ n.kids[j].tag \in block_like_children
            THEN unwrap_block_wrappers(n.kids)
            ELSE <<[n EXCEPT !.kids = unwrap_block_wrappers(@)]>>])

\* normalize_orphan_list_items on one list of children: each run of adjacent
\* li elements goes into a new ul placed where the run began
RECURSIVE wrap_orphans(_)
wrap_orphans(kids) ==
    IF kids = <<>> THEN <<>>
    ELSE IF IsTag(Head(kids)) /\ Head(kids).tag = "li"
    THEN LET stops == {i \in 1..Len(kids) : ~(IsTag(kids[i]) /\ kids[i].tag = "li")}
             n == IF stops = {} THEN Len(kids)
                  ELSE (CHOOSE i \in stops : \A j \in stops : i <= j) - 1
         IN  <<TagNode(NewId("ul", Head(kids).id), "ul", <<>>, SubSeq(kids, 1, n))>>
             \o wrap_orphans(SubSeq(kids, n + 1, Len(kids)))
    ELSE <<Head(kids)>> \o wrap_orphans(Tail(kids))

\* normalize_orphan_list_items calls root.new_tag: only the BeautifulSoup object
\* has that method.  On a Tag the attribute lookup is Tag.find("new_tag"), which
\* is None, and calling it raises TypeError.  This is the case for every tag
\* other than ul and ol that has an li child.
RECURSIVE orphan_raises(_)
orphan_raises(nodes) ==
    \E i \in 1..Len(nodes) :
        /\ IsTag(nodes[i])
        /\ \/ orphan_raises(nodes[i].kids)
           \/ /\ nodes[i].tag \notin {"ul", "ol"}
              /\ \E j \in 1..Len(nodes[i].kids) :
                    IsTag(nodes[i].kids[j]) /\ nodes[i].kids[j].tag = "li"

\* normalize_orphan_list_items(root) for the document, when it does not raise:
\* below the document no tag is left with orphans to wrap
normalize_orphan_list_items(nodes) == wrap_orphans(nodes)

\* the last loop of clean_description_tree: every tag but br without text goes
RECURSIVE drop_empty(_)
drop_empty(nodes) ==
    Flatten([i \in 1..Len(nodes) |->
        LET n == nodes[i]
        IN  IF IsText(n) \/ n.tag = "br" THEN <<n>>
            ELSE IF normalize_whitespace(get_text(n, <<" ">>)) = <<>> THEN <<>>
            ELSE <<[n EXCEPT !.kids = drop_empty(@)]>>])

\* the tree clean_description_tree hands to normalize_orphan_list_items
before_orphans(root) == unwrap_block_wrappers(sanitize_all(decompose_removed(root)))

clean_description_tree(root) == drop_empty(normalize_orphan_list_items(before_orphans(root)))

-----------------------------------------------------------------------------
(* Block collector, boilerplate filter, title normalizer, renderer         *)

\* deduplication by id(block): the first occurrence of each node stays
RECURSIVE dedupe(_, _)
dedupe(bs, seen_ids) ==
    IF bs = <<>> THEN <<>>
    ELSE IF Head(bs).id \in seen_ids THEN dedupe(Tail(bs), seen_ids)
    ELSE <<Head(bs)>> \o dedupe(Tail(bs), seen_ids \cup {Head(bs).id})

RECURSIVE collect_blocks(_)
collect_blocks(children) ==
    dedupe(
        Flatten([i \in 1..Len(children) |->
            LET child == children[i]
            IN  IF IsText(child)
                THEN LET text == normalize_whitespace(child.text)
                     IN  IF text = <<>> THEN <<>>
                         ELSE <<TagNode(NewId("p", child.id), "p", <<>>,
                                        <<TextNode(NewId("string", child.id), text)>>)>>
                ELSE IF child.tag \in ALLOWED_BLOCK_TAGS THEN <<child>>
                ELSE IF child.tag \in ALLOWED_INLINE_TAGS
                THEN <<TagNode(NewId("p", child.id), "p", <<>>, <<child>>)>>
                ELSE collect_blocks(child.kids)]),
        {})

\* is_admin_block taking a prefix keyword anywhere in the text
is_admin_block_anywhere(block, text) ==
    IF text = <<>> THEN FALSE
    ELSE IF block.tag \in {"ul", "ol", "li", "table"} THEN FALSE
    ELSE \E keyword \in ADMIN_ALWAYS_KEYWORDS \cup ADMIN_PREFIX_KEYWORDS :
            contains(lower(text), keyword)

\* is_admin_block matching the keywords without lowering the text first
is_admin_block_cased(block, text) ==
    IF text = <<>> THEN FALSE
    ELSE IF block.tag \in {"ul", "ol", "li", "table"} THEN FALSE
    ELSE \/ \E keyword \in ADMIN_ALWAYS_KEYWORDS : contains(text, keyword)
         \/ \E keyword \in ADMIN_PREFIX_KEYWORDS : startswith(strip(collapse_whitespace(text)), keyword)

is_admin_block(block, text) ==
    IF text = <<>> THEN FALSE
    ELSE LET lowered == lower(text)
             normalized == strip(collapse_whitespace(lowered))
         IN  IF block.tag \in {"ul", "ol", "li", "table"} THEN FALSE
             ELSE \/ \E keyword \in ADMIN_ALWAYS_KEYWORDS : contains(lowered, keyword)
                  \/ \E keyword \in ADMIN_PREFIX_KEYWORDS : startswith(normalized, keyword)

\* filter_admin_blocks; last_text is the text of the last block kept
RECURSIVE filter_from(_, _)
filter_from(bs, last_text) ==
    IF bs = <<>> THEN <<>>
    ELSE LET text == block_text(Head(bs))
         IN  IF text = <<>> THEN filter_from(Tail(bs), last_text)
             ELSE IF is_admin_block(Head(bs), text) THEN filter_from(Tail(bs), last_text)
             ELSE IF last_text = <<text>> THEN filter_from(Tail(bs), last_text)
             ELSE <<Head(bs)>> \o filter_from(Tail(bs), <<text>>)

\* filter_admin_blocks without the comparison with last_text
filter_admin_blocks_repeating(bs) ==
    SelectSeq(bs, LAMBDA b : block_text(b) # <<>> /\ ~is_admin_block(b, block_text(b)))

\* last_text starts as None, written <<>>; a text t is written <<t>>
filter_admin_blocks(bs) == filter_from(bs, <<>>)

is_stop_block(block) ==
    LET lowered == lower(block_text(block))
    IN  \E keyword \in STOP_KEYWORDS : startswith(lowered, keyword)

\* truncate_after_stop_keywords with continue in place of break
truncate_skipping(bs) == SelectSeq(bs, LAMBDA b : ~is_stop_block(b))

RECURSIVE truncate_after_stop_keywords(_)
truncate_after_stop_keywords(bs) ==
    IF bs = <<>> THEN <<>>
    ELSE IF is_stop_block(Head(bs)) THEN <<>>
    ELSE <<Head(bs)>> \o truncate_after_stop_keywords(Tail(bs))

TitleId(n) == [o |-> "title", n |-> n]

title_paragraph(normalized_title) ==
    TagNode(TitleId(0), "p", <<>>,
            <<TagNode(TitleId(1), "strong", <<>>, <<TextNode(TitleId(2), normalized_title)>>)>>)

\* ensure_title_block without the return for an empty title
ensure_title_block_always(bs, title) ==
    LET normalized_title == normalize_whitespace(title)
    IN  IF bs # <<>> /\ lower(block_text(bs[1])) = lower(normalized_title) THEN bs
        ELSE <<title_paragraph(normalized_title)>> \o bs

\* ensure_title_block comparing the first block with the title letter for letter
ensure_title_block_cased(bs, title) ==
    LET normalized_title == normalize_whitespace(title)
    IN  IF normalized_title = <<>> THEN bs
        ELSE IF bs # <<>> /\ block_text(bs[1]) = normalized_title THEN bs
        ELSE <<title_paragraph(normalized_title)>> \o bs

ensure_title_block(bs, title) ==
    LET normalized_title == normalize_whitespace(title)
    IN  IF normalized_title = <<>> THEN bs
        ELSE IF bs # <<>> /\ lower(block_text(bs[1])) = lower(normalized_title) THEN bs
        ELSE <<title_paragraph(normalized_title)>> \o bs

\* blocks_to_string: the blocks with a blank line between them, stripped
blocks_to_string(bs) ==
    IF bs = <<>> THEN <<>>
    ELSE strip_markup(
            Flatten([i \in 1..Len(bs) |->
                decode(bs[i]) \o (IF i # Len(bs) THEN Chars(<<"\n", "\n">>) ELSE <<>>)]))


-----------------------------------------------------------------------------
(* Schedule extractor: extract_times                                       *)

\* Tag.find_all(name): the descendants with that tag name, in document order
find_all(n, name) == SelectSeq(descendants(n), LAMBDA d : d.tag = name)

\* soup.select_one("table.layoutgrid"): <<the first match>>, or <<>>
select_layoutgrid(root) ==
    LET every == Flatten([i \in 1..Len(root) |-> <<root[i]>> \o descendants(root[i])])
        hits == SelectSeq(every, LAMBDA d :
                    /\ d.tag = "table"
                    /\ \E c \in Range(split_whitespace(Attr(d, "class"))) : c = <<"l", "a", "y", "o", "u", "t", "g", "r", "i", "d">>)
    IN  IF hits = <<>> THEN <<>> ELSE <<hits[1]>>

\* table.decompose(): the document without the node of that id
RECURSIVE decompose_id(_, _)
decompose_id(nodes, id) ==
    Flatten([i \in 1..Len(nodes) |->
        IF nodes[i].id = id THEN <<>>
        ELSE <<[nodes[i] EXCEPT !.kids = decompose_id(@, id)]>>])

iter_stripped_strings(node) ==
    LET ss == all_strings(node)
        chunks == SelectSeq([i \in 1..Len(ss) |-> strip(ss[i].text)], NonEmpty)
    IN  SelectSeq([i \in 1..Len(chunks) |-> normalize_whitespace(chunks[i])], NonEmpty)

format_times_summary(cell) == iter_stripped_strings(cell)

\* re.sub(r",\s+", " · ", line): a comma with the whitespace after it
\* becomes " · "
prettify_summary_line(line) ==
    Flatten([i \in 1..Len(line) |->
        IF line[i] = "," /\ i < Len(line) /\ IsSpace(line[i + 1]) THEN <<" ", "·", " ">>
        ELSE IF /\ IsSpace(line[i])
                /\ \E j \in 1..(i - 1) : line[j] = "," /\ \A m \in (j + 1)..i : IsSpace(line[m])
        THEN <<>>
        ELSE <<line[i]>>])

\* detail_item with the second fragment read as the status and the third as the time
detail_item_swapped(row) ==
    LET cells == find_all(row, "td")
        primary_parts == iter_stripped_strings(cells[1])
    IN  [date |-> IF Len(primary_parts) >= 1 THEN primary_parts[1] ELSE <<>>,
         time |-> IF Len(primary_parts) >= 3 THEN primary_parts[3] ELSE <<>>,
         status |-> IF Len(primary_parts) >= 2 THEN primary_parts[2] ELSE <<>>,
         location |-> IF Len(cells) > 1 THEN join(<<" ">>, iter_stripped_strings(cells[2])) ELSE <<>>]

\* one row of the per-session table; a field without text is absent, written <<>>
detail_item(row) ==
    LET cells == find_all(row, "td")
        primary_parts == iter_stripped_strings(cells[1])
    IN  [date |-> IF Len(primary_parts) >= 1 THEN primary_parts[1] ELSE <<>>,
         time |-> IF Len(primary_parts) >= 2 THEN primary_parts[2] ELSE <<>>,
         status |-> IF Len(primary_parts) >= 3 THEN primary_parts[3] ELSE <<>>,
         location |-> IF Len(cells) > 1 THEN join(<<" ">>, iter_stripped_strings(cells[2])) ELSE <<>>]

EmptyItem == [date |-> <<>>, time |-> <<>>, status |-> <<>>, location |-> <<>>]

\* format_times_details: [items, header]; header None is written <<>>
format_times_details(cell) ==
    LET summary_tags == find_all(cell, "summary")
        summary_text ==
            IF summary_tags = <<>> THEN <<>>
            ELSE normalize_whitespace(join(<<" ">>,
                    SelectSeq([i \in 1..Len(all_strings(summary_tags[1])) |->
                                  strip(all_strings(summary_tags[1])[i].text)], NonEmpty)))
        header == IF summary_text = <<>> THEN <<>>
                  ELSE <<"T", "e", "r", "m", "i", "n", "e", " ", "(">> \o summary_text \o <<")">>
        tables == find_all(cell, "table")
        rows == IF tables = <<>> THEN <<>>
                ELSE SelectSeq(find_all(tables[1], "tr"), LAMBDA r : find_all(r, "td") # <<>>)
    IN  [items |-> SelectSeq([i \in 1..Len(rows) |-> detail_item(rows[i])],
                             LAMBDA item : item # EmptyItem),
         header |-> header]

normalise_location(value) ==
    IF value = <<>> THEN <<>>
    ELSE rstrip_space_dot(normalize_whitespace(value))

\* str.find / str.rfind of one character (0 when absent; positions from 1)
find_char(s, c) ==
    IF \E i \in 1..Len(s) : s[i] = c
    THEN CHOOSE i \in 1..Len(s) : s[i] = c /\ \A j \in 1..(i - 1) : s[j] # c
    ELSE 0

rfind_char(s, c) ==
    IF \E i \in 1..Len(s) : s[i] = c
    THEN CHOOSE i \in 1..Len(s) : s[i] = c /\ \A j \in (i + 1)..Len(s) : s[j] # c
    ELSE 0

\* split_heading_parts: [label, badge]
split_heading_parts(raw_heading) ==
    LET heading == normalize_whitespace(raw_heading)
        open_idx == find_char(heading, "(")
        close_idx == rfind_char(heading, ")")
        label == strip(SubSeq(heading, 1, open_idx - 1))
        badge == strip(SubSeq(heading, open_idx + 1, close_idx - 1))
    IN  IF heading = <<>> THEN [label |-> <<"T", "e", "r", "m", "i", "n", "e">>, badge |-> <<>>]
        ELSE IF /\ open_idx # 0
                /\ heading[Len(heading)] = ")"
                /\ close_idx > open_idx
                /\ label # <<>>
        THEN [label |-> label, badge |-> badge]
        ELSE [label |-> heading, badge |-> <<>>]

\* the location of an item as the two renderings show it: <<>> when suppressed
shown_location(item, course_location) ==
    IF /\ item.location # <<>>
       /\ normalise_location(item.location) # normalise_location(course_location)
    THEN item.location
    ELSE <<>>

build_times_detail_text(item, course_location) ==
    LET parts == SelectSeq(<<item.date, item.time, shown_location(item, course_location),
                             item.status>>, NonEmpty)
        core_text == join(<<" ", "·", " ">>, parts)
    IN  IF core_text # <<>> THEN <<"-", " ">> \o core_text ELSE <<>>

NoId == [o |-> "new", n |-> 0]

\* soup.new_tag(name, attrs={"class": cls}) holding one string
ClassTag(name, cls, kids) == TagNode(NoId, name, <<[name |-> "class", value |-> cls]>>, kids)
Str(text) == TextNode(NoId, text)

status_class(status_text) ==
    LET lowered == lower(status_text)
    IN  IF contains(lowered, <<"a", "b", "g", "e", "s", "a", "g", "t">>)
        THEN <<"v", "h", "s", "-", "t", "i", "m", "e", "s", "-", "s", "t", "a", "t", "u", "s", " ", "v", "h", "s", "-", "t", "i", "m", "e", "s", "-", "s", "t", "a", "t", "u", "s", "-", "-", "c", "a", "n", "c", "e", "l", "l", "e", "d">>
        ELSE IF contains(lowered, <<"a", "u", "s", "g", "e", "b", "u", "c", "h", "t">>) \/ contains(lowered, <<"b", "e", "l", "e", "g", "t">>)
        THEN <<"v", "h", "s", "-", "t", "i", "m", "e", "s", "-", "s", "t", "a", "t", "u", "s", " ", "v", "h", "s", "-", "t", "i", "m", "e", "s", "-", "s", "t", "a", "t", "u", "s", "-", "-", "f", "u", "l", "l">>
        ELSE <<"v", "h", "s", "-", "t", "i", "m", "e", "s", "-", "s", "t", "a", "t", "u", "s">>

\* the li of one detail item (lines 443-473)
times_list_item(detail, course_location) ==
    ClassTag("li", <<"v", "h", "s", "-", "t", "i", "m", "e", "s", "-", "l", "i", "s", "t", "-", "i", "t", "e", "m">>,
        (IF detail.date # <<>>
         THEN <<ClassTag("span", <<"v", "h", "s", "-", "t", "i", "m", "e", "s", "-", "d", "a", "t", "e">>, <<Str(detail.date)>>)>> ELSE <<>>)
        \o (IF detail.time # <<>>
            THEN <<ClassTag("span", <<"v", "h", "s", "-", "t", "i", "m", "e", "s", "-", "t", "i", "m", "e">>, <<Str(detail.time)>>)>> ELSE <<>>)
        \o (IF shown_location(detail, course_location) # <<>>
            THEN <<ClassTag("span", <<"v", "h", "s", "-", "t", "i", "m", "e", "s", "-", "l", "o", "c", "a", "t", "i", "o", "n">>, <<Str(detail.location)>>)>> ELSE <<>>)
        \o (IF detail.status # <<>>
            THEN <<ClassTag("span", status_class(detail.status), <<Str(detail.status)>>)>>
            ELSE <<>>))

build_times_html(summary_lines, detail_items, heading, course_location) ==
    IF summary_lines = <<>> /\ detail_items = <<>> THEN <<>>
    ELSE LET texts == SelectSeq([i \in 1..Len(summary_lines) |->
                                    prettify_summary_line(summary_lines[i])], NonEmpty)
             summary_grid ==
                ClassTag("div", <<"v", "h", "s", "-", "t", "i", "m", "e", "s", "-", "s", "u", "m", "m", "a", "r", "y", "-", "g", "r", "i", "d">>,
                    [i \in 1..Len(texts) |->
                        ClassTag("div", <<"v", "h", "s", "-", "t", "i", "m", "e", "s", "-", "s", "u", "m", "m", "a", "r", "y", "-", "i", "t", "e", "m">>, <<Str(texts[i])>>)])
             parts == split_heading_parts(heading)
             heading_tag ==
                ClassTag("div", <<"v", "h", "s", "-", "t", "i", "m", "e", "s", "-", "h", "e", "a", "d", "i", "n", "g">>,
                    <<ClassTag("span", <<"v", "h", "s", "-", "t", "i", "m", "e", "s", "-", "h", "e", "a", "d", "i", "n", "g", "-", "l", "a", "b", "e", "l">>, <<Str(parts.label)>>)>>
                    \o (IF parts.badge # <<>>
                        THEN <<ClassTag("span", <<"v", "h", "s", "-", "t", "i", "m", "e", "s", "-", "c", "o", "u", "n", "t">>, <<Str(parts.badge)>>)>>
                        ELSE <<>>))
             list_items == SelectSeq([i \in 1..Len(detail_items) |->
                                         times_list_item(detail_items[i], course_location)],
                                     LAMBDA li : li.kids # <<>>)
             list_tag == ClassTag("ul", <<"v", "h", "s", "-", "t", "i", "m", "e", "s", "-", "l", "i", "s", "t">>, list_items)
         IN  decode(ClassTag("div", <<"v", "h", "s", "-", "t", "i", "m", "e", "s">>,
                (IF summary_lines # <<>> /\ summary_grid.kids # <<>>
                 THEN <<summary_grid>> ELSE <<>>)
                \o (IF detail_items # <<>>
                    THEN <<heading_tag>> \o (IF list_tag.kids # <<>> THEN <<list_tag>> ELSE <<>>)
                    ELSE <<>>)))

\* the rows of the labeled table that extract_times reads: two cells at
\* least, a label in the first
labeled_rows(table) ==
    SelectSeq(find_all(table, "tr"), LAMBDA row :
        /\ Len(find_all(row, "td")) >= 2
        /\ find_all(find_all(row, "td")[1], "label") # <<>>)

row_key(row) ==
    lower(normalize_whitespace(get_text(find_all(find_all(row, "td")[1], "label")[1], <<>>)))

row_value_cell(row) == find_all(row, "td")[2]

\* the first header a details row offers (lines 509-510)
first_header(rows) ==
    LET hs == SelectSeq([i \in 1..Len(rows) |-> format_times_details(row_value_cell(rows[i])).header],
                        NonEmpty)
    IN  IF hs = <<>> THEN <<>> ELSE hs[1]

\* lines 485-510 of extract_times: what the labeled table holds; found is
\* whether the document has a labeled table
read_schedule(root) ==
    IF select_layoutgrid(root) = <<>>
    THEN [found |-> FALSE, summary_lines |-> <<>>, detail_items |-> <<>>, header |-> <<>>]
    ELSE LET rows == labeled_rows(select_layoutgrid(root)[1])
             zeiten == SelectSeq(rows, LAMBDA r : row_key(r) = <<"z", "e", "i", "t", "e", "n">>)
             termine == SelectSeq(rows, LAMBDA r : row_key(r) \in {<<"a", "n", "z", "a", "h", "l">>, <<"t", "e", "r", "m", "i", "n", "e">>})
         IN  [found |-> TRUE,
              summary_lines |->
                  Flatten([i \in 1..Len(zeiten) |-> format_times_summary(row_value_cell(zeiten[i]))]),
              detail_items |->
                  Flatten([i \in 1..Len(termine) |->
                              format_times_details(row_value_cell(termine[i])).items]),
              header |-> first_header(termine)]

\* lines 514-540 of extract_times: the two renderings
render_times(sched, course_location) ==
    LET summary_lines == [i \in 1..Len(sched.summary_lines) |->
                             prettify_summary_line(sched.summary_lines[i])]
        course_location_value == normalize_whitespace(course_location)
        detail_lines == SelectSeq([i \in 1..Len(sched.detail_items) |->
                                      build_times_detail_text(sched.detail_items[i],
                                                              course_location_value)],
                                  NonEmpty)
        parts == split_heading_parts(sched.header)
        heading_text == IF parts.badge # <<>>
                        THEN parts.label \o <<" ", EN_DASH, " ">> \o parts.badge
                        ELSE parts.label
        text_sections ==
            (IF summary_lines # <<>> THEN <<join(<<"\n">>, summary_lines)>> ELSE <<>>)
            \o (IF detail_lines # <<>>
                THEN <<heading_text \o <<"\n">> \o join(<<"\n">>, detail_lines)>>
                ELSE <<>>)
    IN  IF ~sched.found THEN [text |-> <<>>, html |-> <<>>]
        ELSE [text |-> strip(join(<<"\n", "\n">>, SelectSeq(text_sections, NonEmpty))),
              html |-> build_times_html(summary_lines, sched.detail_items, sched.header,
                                        course_location_value)]

extract_times(root, course_location) == render_times(read_schedule(root), course_location)

-----------------------------------------------------------------------------
(* Course objects                                                          *)

\* a field of a JSON object: missing, null or a string
Missing == [k |-> "missing", s |-> <<>>]
Null == [k |-> "null", s |-> <<>>]
Value(s) == [k |-> "str", s |-> s]

\* course.get(key) or "": a missing, null or empty field reads as ""
get_or_empty(field) == IF field.k = "str" THEN field.s ELSE <<>>

\* course.get(key, ""): a missing field reads as "", a null one as None
IsNone(field) == field.k = "null"

Course(titel, beschreibung, ort, zeiten, zeiten_html) ==
    [titel |-> titel, beschreibung |-> beschreibung, ort |-> ort,
     zeiten |-> zeiten, zeiten_html |-> zeiten_html, rest |-> <<>>]

\* extract_description(soup, title) as one function of the parsed document:
\* <<the description>>, or <<>> when it raises
extract_description(root, title) ==
    IF orphan_raises(before_orphans(root)) THEN <<>>
    ELSE <<blocks_to_string(
              ensure_title_block(
                  truncate_after_stop_keywords(
                      filter_admin_blocks(collect_blocks(clean_description_tree(root)))),
                  title))>>

-----------------------------------------------------------------------------
(* process_course, stage by stage                                          *)

\* lines 556-560: the copy, beschreibung_raw, the parse
ProcessCourseBegin ==
    /\ UNCHANGED scraper
    /\ pc = "start"
    /\ LET raw_html == get_or_empty(course.beschreibung)
       IN  /\ result' = [titel |-> course.titel, ort |-> course.ort,
                         beschreibung |-> course.beschreibung,
                         beschreibung_raw |-> Value(raw_html),
                         zeiten |-> course.zeiten, zeiten_html |-> course.zeiten_html,
                         rest |-> course.rest]
           /\ soup' = BeautifulSoup(raw_html)
    /\ pc' = "times"
    /\ UNCHANGED <<payload, processed, output, course, schedule, times, collected, filtered, trimmed, titled, description>>

\* line 561: extract_times reads the labeled table and detaches it
ExtractTimes ==
    /\ UNCHANGED scraper
    /\ pc = "times"
    /\ schedule' = read_schedule(soup)
    /\ times' = render_times(schedule', get_or_empty(course.ort))
    /\ soup' = IF select_layoutgrid(soup) = <<>> THEN soup
               ELSE decompose_id(soup, select_layoutgrid(soup)[1].id)
    /\ pc' = "clean"
    /\ UNCHANGED <<payload, processed, output, course, collected, filtered, trimmed, titled, description, result>>

\* line 544
CleanDescriptionTree ==
    /\ UNCHANGED scraper
    /\ pc = "clean"
    /\ IF orphan_raises(before_orphans(soup))
       THEN pc' = "raised" /\ soup' = before_orphans(soup)
       ELSE pc' = "collect" /\ soup' = clean_description_tree(soup)
    /\ UNCHANGED <<payload, processed, output, course, schedule, times, collected, filtered, trimmed, titled, description, result>>

\* lines 546-547; soup.body is None after the sanitizer (body is no allowed tag)
CollectBlocks ==
    /\ UNCHANGED scraper
    /\ pc = "collect"
    /\ collected' = collect_blocks(soup)
    /\ pc' = "filter"
    /\ UNCHANGED <<payload, processed, output, course, soup, schedule, times, filtered, trimmed, titled, description, result>>

\* line 548
FilterAdminBlocks ==
    /\ UNCHANGED scraper
    /\ pc = "filter"
    /\ filtered' = filter_admin_blocks(collected)
    /\ pc' = "truncate"
    /\ UNCHANGED <<payload, processed, output, course, soup, schedule, times, collected, trimmed, titled, description, result>>

\* TruncateAfterStopKeywords cutting the collected blocks before the filter
\* has run over them
TruncateAfterStopKeywords_first ==
    /\ UNCHANGED scraper
    /\ pc = "truncate"
    /\ trimmed' = filter_admin_blocks(truncate_after_stop_keywords(collected))
    /\ pc' = "title"
    /\ UNCHANGED <<payload, processed, output, course, soup, schedule, times, collected, filtered, titled, description, result>>

\* line 549
TruncateAfterStopKeywords ==
    /\ UNCHANGED scraper
    /\ pc = "truncate"
    /\ trimmed' = truncate_after_stop_keywords(filtered)
    /\ pc' = "title"
    /\ UNCHANGED <<payload, processed, output, course, soup, schedule, times, collected, filtered, titled, description, result>>

\* line 550; a null titel reaches normalize_whitespace as None: re.sub raises
EnsureTitleBlock ==
    /\ UNCHANGED scraper
    /\ pc = "title"
    /\ IF IsNone(course.titel)
       THEN pc' = "raised" /\ UNCHANGED titled
       ELSE pc' = "render" /\ titled' = ensure_title_block(trimmed, course.titel.s)
    /\ UNCHANGED <<payload, processed, output, course, soup, schedule, times, collected, filtered, trimmed, description, result>>

\* line 552
BlocksToString ==
    /\ UNCHANGED scraper
    /\ pc = "render"
    /\ description' = blocks_to_string(titled)
    /\ pc' = "finish"
    /\ UNCHANGED <<payload, processed, output, course, soup, schedule, times, collected, filtered, trimmed, titled, result>>

\* ProcessCourseEnd taking the schedule text whenever a table was found
ProcessCourseEnd_found ==
    /\ UNCHANGED scraper
    /\ pc = "finish"
    /\ IF ~schedule.found /\ IsNone(course.zeiten)
       THEN pc' = "raised" /\ UNCHANGED result
       ELSE /\ pc' = "done"
            /\ result' = [result EXCEPT
                  !.beschreibung = Value(description),
                  !.zeiten = IF schedule.found THEN Value(times.text)
                             ELSE Value(normalize_whitespace(course.zeiten.s)),
                  !.zeiten_html = IF times.html # <<>> THEN Value(times.html) ELSE Missing]
    /\ UNCHANGED <<payload, processed, output, course, soup, schedule, times, collected, filtered, trimmed, titled, description>>

\* ProcessCourseEnd without the deletion of a zeiten_html key of the input
ProcessCourseEnd_keeping ==
    /\ UNCHANGED scraper
    /\ pc = "finish"
    /\ IF times.text = <<>> /\ IsNone(course.zeiten)
       THEN pc' = "raised" /\ UNCHANGED result
       ELSE /\ pc' = "done"
            /\ result' = [result EXCEPT
                  !.beschreibung = Value(description),
                  !.zeiten = IF times.text # <<>> THEN Value(times.text)
                             ELSE Value(normalize_whitespace(course.zeiten.s)),
                  !.zeiten_html = IF times.html # <<>> THEN Value(times.html) ELSE @]
    /\ UNCHANGED <<payload, processed, output, course, soup, schedule, times, collected, filtered, trimmed, titled, description>>

\* lines 564-578; a null zeiten reaches normalize_whitespace as None when
\* the fallback is taken
ProcessCourseEnd ==
    /\ UNCHANGED scraper
    /\ pc = "finish"
    /\ IF times.text = <<>> /\ IsNone(course.zeiten)
       THEN pc' = "raised" /\ UNCHANGED result
       ELSE /\ pc' = "done"
            /\ result' = [result EXCEPT
                  !.beschreibung = Value(description),
                  !.zeiten = IF times.text # <<>> THEN Value(times.text)
                             ELSE Value(normalize_whitespace(course.zeiten.s)),
                  !.zeiten_html = IF times.html # <<>> THEN Value(times.html) ELSE Missing]
    /\ UNCHANGED <<payload, processed, output, course, soup, schedule, times, collected, filtered, trimmed, titled, description>>

Next ==
    \/ ProcessCourseBegin
    \/ ExtractTimes
    \/ CleanDescriptionTree
    \/ CollectBlocks
    \/ FilterAdminBlocks
    \/ TruncateAfterStopKeywords
    \/ EnsureTitleBlock
    \/ BlocksToString
    \/ ProcessCourseEnd

\* the locals of process_course before its first line
\* the scraper is not running
ScraperIdle ==
    /\ debug = FALSE
    /\ links = <<>>
    /\ index = 1
    /\ scraped = <<>>
    /\ spc = "idle"
    /\ attempt = 0
    /\ history = <<>>
    /\ fetched = Null
    /\ ret = "idle"
    /\ html = Null
    /\ pre_title = Null
    /\ errors = <<>>

Fresh ==
    [soup |-> <<>>,
     schedule |-> [found |-> FALSE, summary_lines |-> <<>>, detail_items |-> <<>>, header |-> <<>>],
     times |-> [text |-> <<>>, html |-> <<>>]]

\* line 587: process_course(course) is called
Enter(c) ==
    /\ course' = c
    /\ pc' = "start"
    /\ soup' = Fresh.soup
    /\ schedule' = Fresh.schedule
    /\ times' = Fresh.times
    /\ collected' = <<>>
    /\ filtered' = <<>>
    /\ trimmed' = <<>>
    /\ titled' = <<>>
    /\ description' = <<>>
    /\ result' = <<>>

\* lines 582-585 and `courses or []`: the courses of the payload; a payload
\* is a list, or an object whose data is a list, null or absent
payload_courses(p) ==
    IF p.kind = "dict" /\ p.data_k # "list" THEN <<>> ELSE p.data

ListPayload(courses) == [kind |-> "list", data_k |-> "list", data |-> courses, meta |-> <<>>]
DictPayload(data_k, courses, meta) ==
    [kind |-> "dict", data_k |-> data_k, data |-> courses, meta |-> meta]

\* lines 582-587: the comprehension starts
TransformPayloadBegin ==
    /\ UNCHANGED scraper
    /\ pc = "payload"
    /\ processed' = <<>>
    /\ IF payload_courses(payload) = <<>>
       THEN /\ pc' = "return"
            /\ UNCHANGED <<course, soup, schedule, times, collected, filtered, trimmed,
                           titled, description, result>>
       ELSE Enter(payload_courses(payload)[1])
    /\ UNCHANGED <<payload, output>>

\* TransformPayloadCollect putting each processed course in front of the others
TransformPayloadCollect_reversed ==
    /\ UNCHANGED scraper
    /\ pc = "done"
    /\ processed' = <<result>> \o processed
    /\ IF Len(processed') < Len(payload_courses(payload))
       THEN Enter(payload_courses(payload)[Len(processed') + 1])
       ELSE /\ pc' = "return"
            /\ UNCHANGED <<course, soup, schedule, times, collected, filtered, trimmed,
                           titled, description, result>>
    /\ UNCHANGED <<payload, output>>

\* line 587: process_course has returned, the comprehension takes the next
\* course or ends
TransformPayloadCollect ==
    /\ UNCHANGED scraper
    /\ pc = "done"
    /\ processed' = Append(processed, result)
    /\ IF Len(processed') < Len(payload_courses(payload))
       THEN Enter(payload_courses(payload)[Len(processed') + 1])
       ELSE /\ pc' = "return"
            /\ UNCHANGED <<course, soup, schedule, times, collected, filtered, trimmed,
                           titled, description, result>>
    /\ UNCHANGED <<payload, output>>

\* lines 589-593
TransformPayloadReturn ==
    /\ UNCHANGED scraper
    /\ pc = "return"
    /\ output' = [data |-> processed,
                  meta |-> IF payload.kind = "dict" THEN payload.meta ELSE <<>>]
    /\ pc' = "returned"
    /\ UNCHANGED <<payload, processed, course, soup, schedule, times, collected, filtered,
                   trimmed, titled, description, result>>

\* transform_payload: process_course for one course after the other
PayloadNext ==
    \/ TransformPayloadBegin
    \/ ProcessCourseBegin
    \/ ExtractTimes
    \/ CleanDescriptionTree
    \/ CollectBlocks
    \/ FilterAdminBlocks
    \/ TruncateAfterStopKeywords
    \/ EnsureTitleBlock
    \/ BlocksToString
    \/ ProcessCourseEnd
    \/ TransformPayloadCollect
    \/ TransformPayloadReturn

\* transform_payload is called with one of the payloads
InitPayload(payloads) ==
    /\ ScraperIdle
    /\ payload \in payloads
    /\ processed = <<>>
    /\ output = <<>>
    /\ pc = "payload"
    /\ course = Course(Missing, Missing, Missing, Missing, Missing)
    /\ soup = Fresh.soup
    /\ schedule = Fresh.schedule
    /\ times = Fresh.times
    /\ collected = <<>>
    /\ filtered = <<>>
    /\ trimmed = <<>>
    /\ titled = <<>>
    /\ description = <<>>
    /\ result = <<>>

\* process_course is at its first line, called for the one course of a list
InitWith(courses) ==
    /\ ScraperIdle
    /\ course \in courses
    /\ payload = ListPayload(<<course>>)
    /\ processed = <<>>
    /\ output = <<>>
    /\ pc = "start"
    /\ soup = <<>>
    /\ schedule = [found |-> FALSE, summary_lines |-> <<>>, detail_items |-> <<>>, header |-> <<>>]
    /\ times = [text |-> <<>>, html |-> <<>>]
    /\ collected = <<>>
    /\ filtered = <<>>
    /\ trimmed = <<>>
    /\ titled = <<>>
    /\ description = <<>>
    /\ result = <<>>

-----------------------------------------------------------------------------
(* Inputs                                                                  *)

\* the most top-level nodes of a generated description
MaxBlocks == 2
\* the most rows of a generated per-session table
MaxRows == 2

E(tag, kids) == TagNode(NoId, tag, <<>>, kids)
EA(tag, attrs, kids) == TagNode(NoId, tag, attrs, kids)
At(name, value) == [name |-> name, value |-> value]
P(text) == E("p", <<Str(text)>>)

SeqsUpTo(S, n) == UNION {[1..m -> S] : m \in 0..n}

\* paragraphs, headings, lists and quotes whose text does or does not carry
\* an administrative or a stop keyword
TextBlocks ==
    { P(<<"K", "u", "r", "s">>),
      P(<<"M", "e", "i", "n", " ", "I", "b", "a", "n">>),
      E("h2", <<Str(<<"Z", "a", "h", "l", "u", "n", "g", " ", "b", "a", "r">>)>>),
      P(<<"D", "i", "e", " ", "Z", "a", "h", "l", "u", "n", "g">>),
      P(<<"Z", "e", "i", "t", "e", "n", ":", " ", "M", "o">>),
      E("blockquote", <<Str(<<" ", "O", "R", "T">>), E("b", <<Str(<<"I", "B", "A", "N">>)>>)>>),
      E("ul", <<E("li", <<Str(<<"I", "B", "A", "N">>)>>)>>),
      E("ul", <<E("li", <<Str(<<"O", "r", "t">>)>>)>>),
      E("h3", <<Str(<<"A", "e", "r", "o", "b", "i", "c">>)>>) }

TextTitles == { <<>>, <<"k", "u", "r", "s", " ">>, <<"O", "r", "t", " ", " ", "A">>, <<"I", "B", "A", "N">> }

\* the example of the specification's section 8 with a paragraph after it
LongDocs ==
    { <<P(<<"E", "i", "n", "s">>), P(<<"Z", "w", "e", "i">>), P(<<"D", "r", "e", "i">>), P(<<"Z", "e", "i", "t", "e", "n", ":", " ", "M", "o", " ", "1", "8", ":", "0", "0">>), P(<<"V", "i", "e", "r">>)>>,
      <<P(<<"E", "i", "n", "s">>), P(<<"E", "i", "n", "s">>), P(<<"B", "I", "C">>), P(<<"E", "i", "n", "s">>), P(<<"P", "r", "e", "i", "s">>), P(<<"B", "I", "C">>)>>,
      <<P(<<"E", "i", "n", "s">>), P(<<"E", "i", "n", "s">>), P(<<"Z", "w", "e", "i">>)>> }

TextCourses ==
    { Course(Value(t), Value(decode_all(d)), Missing, Missing, Missing) :
        t \in TextTitles, d \in SeqsUpTo(TextBlocks, MaxBlocks) \cup LongDocs }

\* markup the sanitizer and the collector have to repair
MarkupDocs ==
    { <<E("div", <<P(<<"K", "u", "r", "s">>), Str(<<" ", "l", "o", "s", "e", "\n">>),
                   EA("span", <<At("style", <<"f", "o", "n", "t", "-", "w", "e", "i", "g", "h", "t", ":", " ", "b", "o", "l", "d">>), At("id", <<"x">>)>>, <<Str(<<"F", "e", "t", "t">>)>>)>>)>>,
      <<EA("a", <<At("href", <<" ", "h", "t", "t", "p", ":", "/", "/", "x", " ">>), At("title", <<"t">>), At("class", <<"c">>)>>, <<Str(<<"L", "i", "n", "k">>)>>),
        EA("p", <<At("class", <<"c">>)>>, <<EA("a", <<At("href", <<" ", " ">>), At("onclick", <<"x">>)>>, <<Str(<<"L", "e", "e", "r">>)>>)>>)>>,
      <<E("script", <<Str(<<"a", "l", "e", "r", "t">>)>>), P(<<"K", "u", "r", "s">>), E("figure", <<E("img", <<>>), Str(<<"B", "i", "l", "d">>)>>)>>,
      <<E("table", <<E("tr", <<E("td", <<Str(<<"R", "a", "u", "m", " ", "2">>)>>)>>)>>), P(<<"K", "u", "r", "s">>)>>,
      <<E("p", <<Str(<<"K", "u", "r", "s">>), E("ul", <<E("li", <<Str(<<"a">>)>>)>>)>>)>>,
      <<E("p", <<E("p", <<E("h2", <<Str(<<"K", "u", "r", "s">>)>>)>>)>>)>>,
      <<E("li", <<Str(<<"a">>)>>), E("li", <<Str(<<"b">>)>>), Str(<<" ">>), E("li", <<Str(<<"c">>)>>)>>,
      <<E("p", <<E("li", <<Str(<<"a">>)>>)>>)>>,
      <<E("ul", <<E("li", <<Str(<<"a">>), E("li", <<Str(<<"b">>)>>)>>)>>)>>,
      <<E("p", <<Str(<<"I", "B">>), E("div", <<Str(<<"A", "N">>)>>)>>), P(<<"T", "e", "x", "t">>)>>,
      <<E("p", <<Str(<<" ">>), E("br", <<>>)>>), E("p", <<Str(<<"K", "u", "r", "s">>), E("br", <<>>), E("em", <<>>)>>)>>,
      <<Str(<<"K", "u", "r", "s", " ", " ", "\n", " ", "n", "e", "u">>), E("br", <<>>), E("strong", <<Str(<<"K", "u", "r", "s", " ", "n", "e", "u">>)>>)>>,
      <<EA("span", <<At("class", <<"t", "e", "x", "t", "-", "i", "t", "a", "l", "i", "c", " ", "x">>)>>, <<Str(<<"K", "u", "r", "s">>)>>),
        EA("span", <<At("style", <<"c", "o", "l", "o", "r", ":", " ", "r", "e", "d">>)>>, <<Str(<<"r", "o", "t">>)>>)>> }

Span(style, class, text) ==
    EA("span", (IF style # <<>> THEN <<At("style", style)>> ELSE <<>>)
               \o (IF class # <<>> THEN <<At("class", class)>> ELSE <<>>), <<Str(text)>>)

\* spans that carry a weight, a slant or neither, in the style or in a class
SpanDocs ==
    { <<E("p", <<Span(<<"f", "o", "n", "t", "-", "w", "e", "i", "g", "h", "t", ":", " ", "6", "0", "0">>, <<>>, <<"a">>), Span(<<"f", "o", "n", "t", "-", "w", "e", "i", "g", "h", "t", ":", "6", "5", "0">>, <<>>, <<"b">>),
                 Span(<<"F", "O", "N", "T", "-", "W", "E", "I", "G", "H", "T", ":", " ", "B", "o", "l", "d", "e", "r", " ", ";", "c", "o", "l", "o", "r", ":", "r", "e", "d">>, <<>>, <<"c">>),
                 Span(<<"f", "o", "n", "t", "-", "w", "e", "i", "g", "h", "t", ":", " ", "5", "0", "0">>, <<"x">>, <<"d">>)>>)>>,
      <<E("p", <<Span(<<>>, <<"x", " ", "S", "e", "m", "i", "B", "o", "l", "d">>, <<"a">>), Span(<<"f", "o", "n", "t", "-", "s", "t", "y", "l", "e", ":", " ", "o", "b", "l", "i", "q", "u", "e">>, <<>>, <<"b">>),
                 Span(<<>>, <<"K", "u", "r", "s", "i", "v">>, <<"c">>), Span(<<>>, <<"k", "u", "r", "s", "i", "v", "-", "x">>, <<"d">>)>>)>>,
      <<E("p", <<Span(<<"f", "o", "n", "t", "-", "s", "t", "y", "l", "e", ":", "i", "t", "a", "l", "i", "c", ";", "f", "o", "n", "t", "-", "w", "e", "i", "g", "h", "t", ":", "9", "0", "0">>, <<>>, <<"a">>),
                 Span(<<"f", "o", "n", "t", "-", "w", "e", "i", "g", "h", "t", ":", " ", "1", "0", "0", "0">>, <<"i", "t", "a", "l", "i", "c">>, <<"b">>),
                 Span(<<"f", "o", "n", "t", "-", "w", "e", "i", "g", "h", "t", ":", " ", "b", "o", "l", "d", ";", " ", "f", "o", "n", "t", "-", "w", "e", "i", "g", "h", "t", ":", " ", "n", "o", "r", "m", "a", "l">>, <<>>, <<"c">>),
                 Span(<<"f", "o", "n", "t", "-", "s", "t", "y", "l", "e">>, <<"b", "o", "l", "d", " ", "i", "t", "a", "l", "i", "c">>, <<"d">>)>>)>> }

MarkupCourses ==
    { Course(Value(t), Value(decode_all(d)), Missing, Missing, Missing) :
        t \in {<<"K", "u", "r", "s">>}, d \in MarkupDocs \cup SpanDocs }

\* rows of the per-session table: the first cell holds date, time and status,
\* the second the location
DetailRows ==
    { E("tr", <<E("td", <<Str(<<"1", "2", ".", "0", "3", ".">>), E("br", <<>>), Str(<<"1", "8", ":", "0", "0">>)>>), E("td", <<Str(<<"V", "H", "S", " ", "O", "s", "t">>)>>)>>),
      E("tr", <<E("td", <<Str(<<"1", "3", ".", "0", "3", ".">>)>>), E("td", <<Str(<<"v", "h", "s", " ", "o", "s", "t">>)>>)>>),
      E("tr", <<E("td", <<Str(<<"1", "4", ".", "0", "3", ".">>), E("br", <<>>), Str(<<"1", "8", ":", "0", "0">>), E("b", <<Str(<<"a", "b", "g", "e", "s", "a", "g", "t">>)>>)>>),
                E("td", <<Str(<<" ", "V", "H", "S", " ", " ", "O", "s", "t", ".", " ">>)>>)>>),
      E("tr", <<E("td", <<>>), E("td", <<Str(<<"V", "H", "S", " ", "O", "s", "t">>)>>)>>),
      E("tr", <<E("td", <<Str(<<"1", "5", ".", "0", "3", ".">>)>>)>>) }

\* a row of th cells, a row whose cells hold no text, a row with a date and a
\* room, a row whose first cell holds four fragments
HeaderRow == E("tr", <<E("th", <<Str(<<"D", "a", "t", "u", "m">>)>>), E("th", <<Str(<<"O", "r", "t">>)>>)>>)
BlankRow == E("tr", <<E("td", <<Str(<<" ">>)>>), E("td", <<>>)>>)
SessionRow(date) == E("tr", <<E("td", <<Str(date)>>), E("td", <<Str(<<"R", "a", "u", "m", " ", "2">>)>>)>>)
FourPartRow ==
    E("tr", <<E("td", <<Str(<<"1", "4", ".", "0", "3", ".">>), E("br", <<>>), Str(<<"1", "8", ":", "0", "0">>), E("b", <<Str(<<"a", "b", "g", "e", "s", "a", "g", "t">>)>>), E("i", <<Str(<<"n", "e", "u">>)>>)>>),
              E("td", <<Str(<<"R", "a", "u", "m">>), E("br", <<>>), Str(<<"3">>)>>)>>)

LabelCell(text) == E("td", <<E("label", <<Str(text)>>)>>)

ZeitenRow ==
    E("tr", <<LabelCell(<<"Z", "e", "i", "t", "e", "n">>), E("td", <<Str(<<"M", "o", ",", " ", "1", "8", ":", "0", "0">>), E("br", <<>>), Str(<<"M", "i", ",", " ", "1", "8", ":", "0", "0">>)>>)>>)

TermineRow(badge, rows) ==
    E("tr", <<LabelCell(<<" ", "T", "e", "r", "m", "i", "n", "e">>),
              E("td", (IF badge # <<>> THEN <<E("summary", <<Str(badge)>>)>> ELSE <<>>)
                      \o <<E("table", rows)>>)>>)

LayoutGrid(rows) == EA("table", <<At("class", <<"l", "a", "y", "o", "u", "t", "g", "r", "i", "d">>)>>, rows)

BeginnRow ==
    E("tr", <<LabelCell(<<"B", "e", "g", "i", "n", "n">>), E("td", <<Str(<<"1", "2", ".", "0", "3", ".">>)>>)>>)

ScheduleDocs ==
    { <<LayoutGrid(zr \o <<TermineRow(badge, rows)>>), P(<<"K", "u", "r", "s">>)>> :
        zr \in {<<>>, <<ZeitenRow>>}, badge \in {<<>>, <<"2">>}, rows \in SeqsUpTo(DetailRows, MaxRows) }
    \cup
    { <<P(<<"K", "u", "r", "s">>), LayoutGrid(<<ZeitenRow>>), LayoutGrid(<<ZeitenRow>>)>>,
      <<P(<<"K", "u", "r", "s">>), LayoutGrid(<<ZeitenRow>>), LayoutGrid(<<BeginnRow, ZeitenRow>>)>>,
      <<LayoutGrid(<<>>), P(<<"K", "u", "r", "s">>)>>,
      <<E("table", <<ZeitenRow>>), P(<<"K", "u", "r", "s">>)>> }
    \cup
    { <<LayoutGrid(<<TermineRow(<<>>, <<HeaderRow, SessionRow(<<"1", "2", ".", "0", "3", ".">>), BlankRow, SessionRow(<<"1", "3", ".", "0", "3", ".">>)>>)>>), P(<<"K", "u", "r", "s">>)>>,
      <<LayoutGrid(<<TermineRow(<<>>, <<BlankRow>>)>>), P(<<"K", "u", "r", "s">>)>>,
      <<LayoutGrid(<<TermineRow(<<>>, <<SessionRow(<<"1", "3", ".", "0", "3", ".">>)>>), ZeitenRow,
                     TermineRow(<<"2">>, <<FourPartRow, SessionRow(<<"1", "2", ".", "0", "3", ".">>)>>)>>), P(<<"K", "u", "r", "s">>)>> }

ScheduleCourses ==
    { Course(Value(<<"K", "u", "r", "s">>), Value(decode_all(d)), ort, Value(<<" ", "M", "o", " ", " ", "1", "8", " ", "U", "h", "r">>), Missing) :
        ort \in {Missing, Value(<<"V", "H", "S", " ", "O", "s", "t">>), Value(<<"v", "h", "s", " ", " ", "o", "s", "t", ".">>)}, d \in ScheduleDocs }

\* courses that carry a zeiten_html from a prior run
PriorCourses ==
    { Course(Value(<<"K", "u", "r", "s">>), Value(decode_all(d)), Null, Value(<<"M", "o", " ", "1", "8", " ", "U", "h", "r">>), z) :
        d \in { <<LayoutGrid(<<ZeitenRow>>), P(<<"K", "u", "r", "s">>)>>,
                <<LayoutGrid(<<>>), P(<<"K", "u", "r", "s">>)>>,
                <<P(<<"K", "u", "r", "s">>)>> },
        z \in { Null, Value(decode(E("div", <<Str(<<"a", "l", "t">>)>>))) } }

\* courses without a description
EmptyCourses ==
    { Course(t, b, Missing, z, Missing) :
        t \in {Missing, Null, Value(<<>>), Value(<<" ">>), Value(<<"K", "u", "r", "s">>)},
        b \in {Missing, Null, Value(<<>>)},
        z \in {Missing, Null} }

Courses == TextCourses \cup MarkupCourses \cup ScheduleCourses \cup EmptyCourses \cup PriorCourses

Init == InitWith(Courses)

Spec == Init /\ [][Next]_vars

\* the most courses of a generated payload
MaxCourses == 2

Pair(key, value) == [key |-> key, value |-> value]

\* courses with fields of their own besides the four the cleaner writes
PayloadCourses ==
    { [Course(Value(<<"K", "u", "r", "s">>), Value(decode_all(<<P(<<"K", "u", "r", "s">>), P(<<"M", "e", "i", "n", " ", "I", "b", "a", "n">>)>>)),
              Missing, Missing, Missing)
          EXCEPT !.rest = <<Pair("link", <<"k", "1">>)>>],
      [Course(Value(<<"Y", "o", "g", "a", " ">>), Value(decode_all(<<LayoutGrid(<<ZeitenRow>>), P(<<"K", "u", "r", "s">>)>>)),
              Value(<<"V", "H", "S", " ", " ", "O", "s", "t">>), Value(<<" ", "M", "o">>), Value(decode(E("div", <<Str(<<"a", "l", "t">>)>>))))
          EXCEPT !.rest = <<Pair("nummer", <<"2">>), Pair("link", <<"k", "2">>)>>],
      Course(Missing, Null, Null, Missing, Missing),
      [Course(Null, Value(<<>>), Missing, Missing, Missing)
          EXCEPT !.rest = <<Pair("link", <<"k", "4">>)>>] }

Payloads ==
    LET lists == SeqsUpTo(PayloadCourses, MaxCourses)
        metas == { <<>>, <<Pair("stand", <<"h", "e", "u", "t", "e">>), Pair("quelle", <<"v", "h", "s">>)>> }
    IN  { ListPayload(cs) : cs \in lists }
        \cup { DictPayload("list", cs, m) : cs \in lists, m \in metas }
        \cup { DictPayload(k, <<>>, m) : k \in {"null", "missing"}, m \in metas }

PayloadInit == InitPayload(Payloads)

PayloadSpec == PayloadInit /\ [][PayloadNext]_vars

-----------------------------------------------------------------------------
(* The scraper (src/vhs_scraper.py): iterate_courses, parse_course_safe,   *)
(* parse_course and fetch                                                  *)

\* range(3): the iterations of the loop of fetch
FetchAttempts == 3

\* the most course links of an overview page
MaxLinks == 2

\* a local variable that has no value yet
Unbound == [k |-> "unbound", s |-> <<>>]

\* `not value`: None and "" are false
Falsy(value) == value.k # "str" \/ value.s = <<>>

\* what requests.get does: it raises a RequestException, or it answers with
\* a status and a text
Raised == [exc |-> TRUE, status_code |-> 0, text |-> <<>>]
Response(status_code, text) == [exc |-> FALSE, status_code |-> status_code, text |-> text]

\* course pages: with a heading, without one, empty
Pages ==
    { decode_all(<<E("h1", <<Str(<<" ", "K", "u", "r", "s", " ">>)>>), P(<<"Y", "o", "g", "a">>)>>),
      decode_all(<<P(<<"Y", "o", "g", "a">>)>>),
      <<>> }

Responses ==
    {Raised, Response(410, <<>>), Response(500, decode_all(<<P(<<"F", "e", "h", "l", "e", "r">>)>>))}
    \cup {Response(200, text) : text \in Pages}

\* soup.find(["h1", "h2"]) and get_text(strip=True): the title of the page,
\* None without a heading
page_title(text) ==
    LET root == BeautifulSoup(text)
        every == Flatten([i \in 1..Len(root) |-> <<root[i]>> \o descendants(root[i])])
        title_tags == SelectSeq(every, LAMBDA d : d.tag \in {"h1", "h2"})
    IN  IF title_tags = <<>> THEN Null ELSE Value(get_text_strip(title_tags[1], <<>>))

\* fetch(url) is called; its result goes to the caller's next position
CallFetch(caller) ==
    /\ spc' = "fetch"
    /\ ret' = caller
    /\ attempt' = 0
    /\ history' = <<>>
    /\ UNCHANGED fetched

\* FetchAttempt with a 410 handled as any other status
FetchAttempt_retrying ==
    /\ spc = "fetch"
    /\ attempt < FetchAttempts
    /\ \E response \in Responses :
          /\ history' = Append(history, response)
          /\ IF ~response.exc /\ response.status_code = 200
             THEN /\ fetched' = Value(response.text)
                  /\ spc' = ret
                  /\ UNCHANGED attempt
             ELSE /\ attempt' = attempt + 1
                  /\ UNCHANGED <<fetched, spc>>
    /\ UNCHANGED <<debug, links, index, scraped, ret, html, pre_title, errors>>
    /\ UNCHANGED cleaner

\* lines 38-49: one iteration of the loop of fetch: the request, and the
\* return on 200 and on 410 or the sleep
FetchAttempt ==
    /\ spc = "fetch"
    /\ attempt < FetchAttempts
    /\ \E response \in Responses :
          /\ history' = Append(history, response)
          /\ IF ~response.exc /\ response.status_code = 200
             THEN /\ fetched' = Value(response.text)
                  /\ spc' = ret
                  /\ UNCHANGED attempt
             ELSE IF ~response.exc /\ response.status_code = 410
             THEN /\ fetched' = Null
                  /\ spc' = ret
                  /\ UNCHANGED attempt
             ELSE /\ attempt' = attempt + 1
                  /\ UNCHANGED <<fetched, spc>>
    /\ UNCHANGED <<debug, links, index, scraped, ret, html, pre_title, errors>>
    /\ UNCHANGED cleaner

\* line 50: the loop of fetch is over
FetchGiveUp ==
    /\ spc = "fetch"
    /\ attempt = FetchAttempts
    /\ fetched' = Null
    /\ spc' = ret
    /\ UNCHANGED <<debug, links, index, scraped, attempt, history, ret, html, pre_title, errors>>
    /\ UNCHANGED cleaner

\* lines 371-376 and 290: the loop of iterate_courses takes the next link and
\* calls parse_course_safe, which calls fetch.  The links of one overview
\* page are distinct (line 68), so none is in seen.
IterateCoursesNext ==
    /\ spc = "links"
    /\ index <= Len(links)
    /\ html' = Unbound
    /\ pre_title' = Unbound
    /\ CallFetch("safe_fetched")
    /\ UNCHANGED <<debug, links, index, scraped, errors>>
    /\ UNCHANGED cleaner

\* line 382: the loop of iterate_courses is over
IterateCoursesReturn ==
    /\ spc = "links"
    /\ index > Len(links)
    /\ spc' = "returned"
    /\ UNCHANGED <<debug, links, index, scraped, attempt, history, fetched, ret, html, pre_title, errors>>
    /\ UNCHANGED cleaner

\* lines 290-298 and 315: parse_course_safe has the page or raises
\* RuntimeError; with the page it reads the title and calls parse_course,
\* which calls fetch again
ParseCourseSafeFetched ==
    /\ spc = "safe_fetched"
    /\ html' = fetched
    /\ IF Falsy(fetched)
       THEN /\ spc' = "except"
            /\ UNCHANGED <<pre_title, attempt, history, fetched, ret>>
       ELSE /\ pre_title' = page_title(fetched.s)
            /\ CallFetch("parse_fetched")
    /\ UNCHANGED <<debug, links, index, scraped, errors>>
    /\ UNCHANGED cleaner

\* lines 316-349, 298 and 377-380: parse_course returns None without a page;
\* with one it builds the course or raises, which of the two is the page's
\* doing.  A course goes to the list.
ParseCourseFetched ==
    /\ spc = "parse_fetched"
    /\ IF Falsy(fetched)
       THEN /\ spc' = "links"
            /\ index' = index + 1
            /\ UNCHANGED scraped
       ELSE \E parse_raises \in BOOLEAN :
               IF parse_raises
               THEN /\ spc' = "except"
                    /\ UNCHANGED <<index, scraped>>
               ELSE /\ scraped' = Append(scraped,
                                     [url |-> links[index],
                                      titel |-> IF page_title(fetched.s) = Null
                                                THEN Value(<<"O", "h", "n", "e", " ", "T", "i", "t", "e", "l">>)
                                                ELSE page_title(fetched.s)])
                    /\ spc' = "links"
                    /\ index' = index + 1
    /\ UNCHANGED <<debug, links, attempt, history, fetched, ret, html, pre_title, errors>>
    /\ UNCHANGED cleaner

\* lines 300-307: the handler of parse_course_safe.  With debug it reads
\* pre_title, which has no value when fetch gave no page: the
\* UnboundLocalError leaves parse_course_safe, iterate_courses and main.
ParseCourseSafeExcept ==
    /\ spc = "except"
    /\ IF debug /\ pre_title = Unbound
       THEN /\ spc' = "aborted"
            /\ UNCHANGED <<index, errors>>
       ELSE /\ errors' = IF debug THEN Append(errors, links[index]) ELSE errors
            /\ spc' = "links"
            /\ index' = index + 1
    /\ UNCHANGED <<debug, links, scraped, attempt, history, fetched, ret, html, pre_title>>
    /\ UNCHANGED cleaner

ScraperNext ==
    \/ IterateCoursesNext
    \/ FetchAttempt
    \/ FetchGiveUp
    \/ ParseCourseSafeFetched
    \/ ParseCourseFetched
    \/ ParseCourseSafeExcept
    \/ IterateCoursesReturn

\* the cleaner is not running
CleanerIdle ==
    /\ payload = ListPayload(<<>>)
    /\ processed = <<>>
    /\ output = <<>>
    /\ pc = "idle"
    /\ course = Course(Missing, Missing, Missing, Missing, Missing)
    /\ soup = Fresh.soup
    /\ schedule = Fresh.schedule
    /\ times = Fresh.times
    /\ collected = <<>>
    /\ filtered = <<>>
    /\ trimmed = <<>>
    /\ titled = <<>>
    /\ description = <<>>
    /\ result = <<>>

\* lines 399-406 and 362-369: main has read --debug, iterate_courses has the
\* links of the overview page
ScraperInit ==
    /\ CleanerIdle
    /\ debug \in BOOLEAN
    /\ links \in {[i \in 1..n |-> i] : n \in 0..MaxLinks}
    /\ index = 1
    /\ scraped = <<>>
    /\ spc = "links"
    /\ attempt = 0
    /\ history = <<>>
    /\ fetched = Null
    /\ ret = "idle"
    /\ html = Unbound
    /\ pre_title = Unbound
    /\ errors = <<>>

ScraperSpec == ScraperInit /\ [][ScraperNext]_vars

\* a running call of fetch goes on: the request returns within its timeout
\* (line 40), the sleep ends (line 49)
FairScraperSpec == ScraperSpec /\ WF_vars(FetchAttempt) /\ WF_vars(FetchGiveUp)

-----------------------------------------------------------------------------
(* Claims                                                                  *)

BlockIds(bs) == {bs[i].id : i \in 1..Len(bs)}

\* the description has been rendered
Rendered == pc \in {"finish", "done"}

\* C1: idempotence of the description pipeline: running extract_description
\* on its own rendered output with the same title yields the same output.
C1_Idempotent ==
    pc = "done" =>
        extract_description(BeautifulSoup(description), course.titel.s) = <<description>>

\* the normalized flattened text of the block holds "IBAN" in some letter case
C2_HasIban(b) == contains(lower(block_text(b)), <<"i", "b", "a", "n">>)

\* C2 as stated: every collected block, of any kind, whose text contains
\* "IBAN" is absent from the blocks of the output description.
C2_AnyKindAbsent ==
    pc = "done" =>
        \A i \in 1..Len(collected) :
            C2_HasIban(collected[i]) => collected[i].id \notin BlockIds(titled)

\* C2 amended: every collected block other than a list (ul, ol) whose
\* normalized flattened text contains "IBAN" in any letter case is absent
\* from the blocks of the output description.
C2_NonListAbsent ==
    pc = "done" =>
        \A i \in 1..Len(collected) :
            (collected[i].tag \notin {"ul", "ol"} /\ C2_HasIban(collected[i]))
                => collected[i].id \notin BlockIds(titled)

C2_Witness ==
    /\ pc = "done"
    /\ Len(titled) >= 2
    /\ \E i \in 1..Len(collected) :
          /\ collected[i].tag \in {"p", "blockquote"}
          /\ C2_HasIban(collected[i])
          /\ ~contains(block_text(collected[i]), <<"i", "b", "a", "n">>)

C3_TitleMarkup(title) ==
    <<OpenTok("p", <<>>), OpenTok("strong", <<>>)>> \o Chars(title)
        \o <<CloseTok("strong"), CloseTok("p")>>

C4_StopWords == {<<"z", "e", "i", "t", "e", "n">>, <<"a", "n", "z", "a", "h", "l">>, <<"t", "e", "r", "m", "i", "n", "e">>, <<"l", "e", "i", "t", "u", "n", "g">>, <<"n", "u", "m", "m", "e", "r">>, <<"o", "r", "t">>, <<"p", "r", "e", "i", "s">>}

C4_BeginsWithStopWord(b) ==
    \E w \in C4_StopWords : startswith(lower(normalize_whitespace(get_text_strip(b, <<" ">>))), w)

\* the index of the first surviving block that begins with a stop keyword,
\* Len(filtered) + 1 without one
C4_Boundary ==
    LET hits == {i \in 1..Len(filtered) : C4_BeginsWithStopWord(filtered[i])}
    IN  IF hits = {} THEN Len(filtered) + 1
        ELSE CHOOSE i \in hits : \A j \in hits : i <= j

\* C4: the blocks kept by the truncation are exactly the surviving blocks
\* before the first one that begins with a stop keyword, in their order (all
\* of them without such a block), and the rendered description holds, of the
\* surviving blocks, exactly those.
C4_Truncation ==
    /\ pc \in {"title", "render", "finish", "done"}
          => trimmed = SubSeq(filtered, 1, C4_Boundary - 1)
    /\ Rendered
          => SelectSeq(titled, LAMBDA b : b.id \in BlockIds(filtered))
                = SubSeq(filtered, 1, C4_Boundary - 1)

C4_Witness ==
    /\ pc = "done"
    /\ C4_Boundary > 2
    /\ C4_Boundary < Len(filtered)
    /\ Len(trimmed) = C4_Boundary - 1

\* a paragraph holding one strong element that holds the text
C5_IsTitleParagraph(b, text) ==
    /\ b.tag = "p"
    /\ Len(b.kids) = 1
    /\ b.kids[1].tag = "strong"
    /\ Len(b.kids[1].kids) = 1
    /\ IsText(b.kids[1].kids[1])
    /\ b.kids[1].kids[1].text = text

C5_FirstReadsTitle ==
    /\ trimmed # <<>>
    /\ lower(block_text(trimmed[1])) = lower(normalize_whitespace(course.titel.s))

\* C5 as stated: the sequence is unchanged when its first block reads the
\* title, and in every other case the title paragraph is prepended.
C5_AlwaysTitled ==
    pc \in {"render", "finish", "done"} =>
        IF C5_FirstReadsTitle THEN titled = trimmed
        ELSE /\ titled # <<>>
             /\ C5_IsTitleParagraph(titled[1], normalize_whitespace(course.titel.s))
             /\ Tail(titled) = trimmed

\* C5 amended: with an empty normalized title the sequence is unchanged;
\* otherwise it is unchanged when its first block reads the title ignoring
\* case, and in every other case the title paragraph is prepended, so with a
\* title that is not empty the first block of the output reads the title.
C5_TitledUnlessEmpty ==
    pc \in {"render", "finish", "done"} =>
        IF normalize_whitespace(course.titel.s) = <<>> \/ C5_FirstReadsTitle
        THEN titled = trimmed
        ELSE /\ titled # <<>>
             /\ C5_IsTitleParagraph(titled[1], normalize_whitespace(course.titel.s))
             /\ Tail(titled) = trimmed
             /\ block_text(titled[1]) = normalize_whitespace(course.titel.s)

C5_Witness ==
    /\ pc = "done"
    /\ C5_FirstReadsTitle
    /\ block_text(trimmed[1]) # normalize_whitespace(course.titel.s)
    /\ titled = trimmed

\* the lines of the schedule text
C6_Lines == Range(split(times.text, "\n"))

\* equal after ignoring letter case, whitespace differences and a trailing period
C6_SameLocation(a, b) == lower(normalise_location(a)) = lower(normalise_location(b))

\* the bullet line of an item, with its location or without
C6_Line(item, with_location) ==
    <<"-", " ">> \o join(<<" ", "·", " ">>,
        SelectSeq(<<item.date, item.time,
                    IF with_location THEN item.location ELSE <<>>,
                    item.status>>, NonEmpty))

\* the span that shows a location in the list of the schedule markup
C6_LocationSpan(location) ==
    decode(ClassTag("span", <<"v", "h", "s", "-", "t", "i", "m", "e", "s", "-", "l", "o", "c", "a", "t", "i", "o", "n">>, <<Str(location)>>))

\* C6: the bullet line and the list item of a detail item leave the item's
\* location out exactly when it equals the course's location after ignoring
\* letter case, whitespace differences and a trailing period.
C6_LocationSuppression ==
    pc = "done" =>
        \A i \in 1..Len(schedule.detail_items) :
            LET item == schedule.detail_items[i]
                same == C6_SameLocation(item.location, get_or_empty(course.ort))
            IN  item.location # <<>> =>
                    /\ C6_Line(item, ~same) \in C6_Lines
                    /\ contains(times.html, C6_LocationSpan(item.location)) <=> ~same

\* the tables that carry the class layoutgrid, anywhere in the nodes
C7_LabeledTables(nodes) ==
    SelectSeq(Flatten([i \in 1..Len(nodes) |-> <<nodes[i]>> \o descendants(nodes[i])]),
              LAMBDA d : /\ d.tag = "table"
                         /\ <<"l", "a", "y", "o", "u", "t", "g", "r", "i", "d">> \in Range(split_whitespace(Attr(d, "class"))))

\* where in the input the strings below the nodes stand
TextPositions(nodes) ==
    {t.id.n : t \in UNION {Range(all_strings(nodes[i])) : i \in 1..Len(nodes)}}

\* where in the input the strings of the output description stand; the
\* strings of the title paragraph come from the titel, not from the input
OutputPositions ==
    {t.id.n : t \in {u \in UNION {Range(all_strings(titled[i])) : i \in 1..Len(titled)} :
                        u.id.o # "title"}}

\* C7: no text of a labeled schedule table of the input document appears in
\* the output description.
C7_NoScheduleText ==
    pc = "done" =>
        OutputPositions
            \cap TextPositions(C7_LabeledTables(BeautifulSoup(get_or_empty(course.beschreibung))))
          = {}

C8_RemovedSet ==
    {"script", "style", "img", "figure", "picture", "svg", "header", "footer", "noscript", "table"}

C8_RemovedNodes(nodes) ==
    SelectSeq(Flatten([i \in 1..Len(nodes) |-> <<nodes[i]>> \o descendants(nodes[i])]),
              LAMBDA d : d.tag \in C8_RemovedSet)

\* C8: no node of the removed set (script, style, img, figure, picture, svg,
\* header, footer, noscript, table) and no text below one is left after the
\* sanitizer, and none of that text is in the description.
C8_RemovedSetGone ==
    LET gone == TextPositions(C8_RemovedNodes(BeautifulSoup(get_or_empty(course.beschreibung))))
    IN  /\ pc = "collect"
            => /\ C8_RemovedNodes(soup) = <<>>
               /\ TextPositions(soup) \cap gone = {}
        /\ pc = "done" => OutputPositions \cap gone = {}

\* the elements of the rendered description
C9_Elements == SelectSeq(description, LAMBDA t : t.k \in {"open", "void"})

\* C9: every top-level block of the rendered description is p, ul, ol, h1-h6
\* or blockquote, every element in it has an allowed tag, and no element has
\* an attribute other than href and title on an anchor, a href being trimmed
\* and not empty.
C9_AllowedVocabulary ==
    Rendered =>
        /\ \A i \in 1..Len(titled) :
              titled[i].tag \in {"p", "ul", "ol", "h1", "h2", "h3", "h4", "h5", "h6", "blockquote"}
        /\ \A n \in Range(BeautifulSoup(description)) :
              IF IsText(n) THEN strip(n.text) = <<>>
              ELSE n.tag \in {"p", "ul", "ol", "h1", "h2", "h3", "h4", "h5", "h6", "blockquote"}
        /\ \A t \in Range(C9_Elements) :
              /\ t.tag \in {"p", "h1", "h2", "h3", "h4", "h5", "h6", "blockquote",
                            "strong", "em", "b", "i", "u", "sup", "sub", "span", "a", "code",
                            "ul", "ol", "li", "br"}
              /\ \A a \in Range(t.attrs) :
                    /\ t.tag = "a"
                    /\ a.name \in {"href", "title"}
                    /\ a.name = "href" => a.value # <<>> /\ a.value = strip(a.value)

C9_Witness ==
    /\ pc = "done"
    /\ \E t \in Range(C9_Elements) :
          /\ t.tag = "a"
          /\ t.attrs = <<At("href", <<"h", "t", "t", "p", ":", "/", "/", "x">>), At("title", <<"t">>)>>
    /\ \E t \in Range(C9_Elements) : t.tag = "a" /\ t.attrs = <<>>
    /\ \E n \in Range(descendants(TagNode(NoId, "div", <<>>, BeautifulSoup(course.beschreibung.s)))) :
          HasAttr(n, "class")

C10_Always == {<<"i", "b", "a", "n">>, <<"b", "i", "c">>, <<"b", "a", "n", "k", "v", "e", "r", "b", "i", "n", "d", "u", "n", "g">>, <<"n", "a", "m", "e", " ", "d", "e", "r", " ", "b", "a", "n", "k">>, <<"k", "o", "n", "t", "o", "i", "n", "h", "a", "b", "e", "r">>}

C10_Prefix == {<<"z", "a", "h", "l", "u", "n", "g", "s", "b", "e", "d", "i", "n", "g", "u", "n", "g", "e", "n">>, <<"t", "e", "i", "l", "n", "a", "h", "m", "e", "b", "e", "d", "i", "n", "g", "u", "n", "g", "e", "n">>, <<"g", "e", "b", "ü", "h", "r", "e", "n", "o", "r", "d", "n", "u", "n", "g">>,
               <<"r", "ü", "c", "k", "t", "r", "i", "t", "t">>, <<"h", "a", "f", "t", "u", "n", "g">>, <<"z", "a", "h", "l", "u", "n", "g">>}

\* the text of the block is administrative
C10_Administrative(b) ==
    \/ \E k \in C10_Always : contains(lower(block_text(b)), k)
    \/ \E k \in C10_Prefix : startswith(lower(normalize_whitespace(block_text(b))), k)

\* the filter left the block out as the repetition of a block it kept
C10_Repeats(i) ==
    \E j \in 1..(i - 1) :
        /\ collected[j].id \in BlockIds(filtered)
        /\ block_text(collected[j]) = block_text(collected[i])

\* C10: the filter drops a block that is no list exactly when its text holds
\* an always-keyword anywhere or begins with a prefix keyword; a block that
\* holds a prefix keyword further in is kept, and a list is never dropped as
\* administrative (a kept block's repetition aside).
C10_Classification ==
    pc \in {"truncate", "title", "render", "finish", "done"} =>
        \A i \in 1..Len(collected) :
            LET b == collected[i]
            IN  IF b.tag \notin {"ul", "ol", "li", "table"} /\ C10_Administrative(b)
                THEN b.id \notin BlockIds(filtered)
                ELSE b.id \in BlockIds(filtered) \/ C10_Repeats(i)

C10_Witness ==
    /\ pc = "done"
    /\ \E i, j \in 1..Len(collected) :
          /\ collected[i].tag \notin {"ul", "ol"}
          /\ startswith(lower(block_text(collected[i])), <<"z", "a", "h", "l", "u", "n", "g">>)
          /\ collected[i].id \notin BlockIds(filtered)
          /\ ~startswith(lower(block_text(collected[j])), <<"z", "a", "h", "l", "u", "n", "g">>)
          /\ contains(lower(block_text(collected[j])), <<"z", "a", "h", "l", "u", "n", "g">>)
          /\ collected[j].id \in BlockIds(filtered)

\* collected[i] and collected[i+1] read the same
C11_Twins(i) == block_text(collected[i]) = block_text(collected[i + 1])

\* the maximal run of blocks around i that read the same as collected[i]
C11_Run(i) ==
    {j \in 1..Len(collected) :
        \A k \in (IF j < i THEN j ELSE i)..(IF j < i THEN i ELSE j) :
            block_text(collected[k]) = block_text(collected[i])}

\* the filter drops the block as administrative
C11_Administrative(b) == b.tag \notin {"ul", "ol", "li", "table"} /\ C10_Administrative(b)

\* C11 as stated: of adjacent collected blocks that read the same the output
\* description holds exactly one.
C11_ExactlyOne ==
    pc = "done" =>
        \A i \in 1..(Len(collected) - 1) :
            C11_Twins(i) =>
                Cardinality({j \in C11_Run(i) : collected[j].id \in BlockIds(titled)}) = 1

\* C11 amended: no two neighbouring blocks of the filtered sequence read the
\* same; of adjacent collected blocks that read the same the output
\* description holds at most one; and when the first of the two is not
\* administrative and follows a kept block that reads differently (or
\* follows no block), the filter keeps the first and drops the second.
C11_AtMostOne ==
    /\ pc \in {"truncate", "title", "render", "finish", "done"}
          => /\ \A i \in 1..(Len(filtered) - 1) :
                    block_text(filtered[i]) # block_text(filtered[i + 1])
             /\ \A i \in 1..(Len(collected) - 1) :
                    (/\ C11_Twins(i)
                     /\ ~C11_Administrative(collected[i])
                     /\ i > 1 => /\ collected[i - 1].id \in BlockIds(filtered)
                                 /\ block_text(collected[i - 1]) # block_text(collected[i]))
                        => /\ collected[i].id \in BlockIds(filtered)
                           /\ collected[i + 1].id \notin BlockIds(filtered)
    /\ pc = "done"
          => \A i \in 1..(Len(collected) - 1) :
                C11_Twins(i) =>
                    Cardinality({j \in C11_Run(i) : collected[j].id \in BlockIds(titled)}) <= 1

C11_Witness ==
    /\ pc = "done"
    /\ \E i \in 1..(Len(collected) - 1) :
          /\ C11_Twins(i)
          /\ collected[i].id \in BlockIds(titled)
          /\ collected[i + 1].id \notin BlockIds(titled)
          /\ \E j \in (i + 2)..Len(collected) : collected[j].id \in BlockIds(titled)

\* every node at or below the nodes
C12_Nodes(nodes) == Flatten([i \in 1..Len(nodes) |-> <<nodes[i]>> \o descendants(nodes[i])])

C12_Digits == <<"0", "1", "2", "3", "4", "5", "6", "7", "8", "9">>

\* the number a string of digits writes, -1 for any other string
RECURSIVE C12_Number(_)
C12_Number(s) ==
    IF s = <<>> \/ \E i \in 1..Len(s) : s[i] \notin Range(C12_Digits) THEN -1
    ELSE LET d == (CHOOSE k \in 1..10 : C12_Digits[k] = s[Len(s)]) - 1
         IN  IF Len(s) = 1 THEN d ELSE 10 * C12_Number(SubSeq(s, 1, Len(s) - 1)) + d

C12_Classes(span) ==
    {lower(c) : c \in Range(split_whitespace(Attr(span, "class")))}

C12_FontWeight(span) == style_get(Attr(span, "style"), <<"f", "o", "n", "t", "-", "w", "e", "i", "g", "h", "t">>)
C12_FontStyle(span) == style_get(Attr(span, "style"), <<"f", "o", "n", "t", "-", "s", "t", "y", "l", "e">>)

\* the tag the claim gives the span: a numeric weight of 600 or more is
\* strong, a class is em only when it is italic or kursiv
C12_Claimed(span) ==
    IF \/ C12_FontWeight(span) \in {<<"b", "o", "l", "d">>, <<"b", "o", "l", "d", "e", "r">>}
       \/ C12_Number(C12_FontWeight(span)) >= 600
       \/ \E c \in C12_Classes(span) : contains(c, <<"b", "o", "l", "d">>)
    THEN "strong"
    ELSE IF \/ C12_FontStyle(span) \in {<<"i", "t", "a", "l", "i", "c">>, <<"o", "b", "l", "i", "q", "u", "e">>}
            \/ C12_Classes(span) \cap {<<"i", "t", "a", "l", "i", "c">>, <<"k", "u", "r", "s", "i", "v">>} # {}
    THEN "em"
    ELSE "span"

\* the tag of the amended claim: the weights are 600, 700, 800 and 900, a
\* class that contains italic is em too
C12_Amended(span) ==
    IF \/ C12_FontWeight(span) \in {<<"b", "o", "l", "d">>, <<"b", "o", "l", "d", "e", "r">>}
       \/ C12_Number(C12_FontWeight(span)) \in {600, 700, 800, 900}
       \/ \E c \in C12_Classes(span) : contains(c, <<"b", "o", "l", "d">>)
    THEN "strong"
    ELSE IF \/ C12_FontStyle(span) \in {<<"i", "t", "a", "l", "i", "c">>, <<"o", "b", "l", "i", "q", "u", "e">>}
            \/ \E c \in C12_Classes(span) : c = <<"k", "u", "r", "s", "i", "v">> \/ contains(c, <<"i", "t", "a", "l", "i", "c">>)
    THEN "em"
    ELSE "span"

\* the spans of the input document
C12_Spans ==
    SelectSeq(C12_Nodes(BeautifulSoup(get_or_empty(course.beschreibung))),
              LAMBDA n : n.tag = "span")

\* what the sanitizer made of the node
C12_After(n) == SelectSeq(C12_Nodes(soup), LAMBDA m : m.id = n.id)

\* C12 as stated: after the sanitizer a span of the input is strong with a
\* weight of bold, bolder or a number of 600 or more or with a class that
\* contains bold, else em with a slant of italic or oblique or a class italic
\* or kursiv, else a span, and has neither style nor class.
C12_SpanAsClaimed ==
    pc = "collect" =>
        \A n \in Range(C12_Spans) : \A m \in Range(C12_After(n)) :
            m.tag = C12_Claimed(n) /\ ~HasAttr(m, "style") /\ ~HasAttr(m, "class")

\* C12 amended: after the sanitizer a span of the input is strong with a
\* weight of bold, bolder, 600, 700, 800 or 900 or with a class that contains
\* bold, else em with a slant of italic or oblique or a class that is kursiv
\* or contains italic, else a span, and has neither style nor class.
C12_SpanEmphasis ==
    pc = "collect" =>
        \A n \in Range(C12_Spans) : \A m \in Range(C12_After(n)) :
            m.tag = C12_Amended(n) /\ ~HasAttr(m, "style") /\ ~HasAttr(m, "class")

C12_Witness ==
    /\ pc = "collect"
    /\ \E n \in Range(C12_Spans) :
          /\ C12_Number(C12_FontWeight(n)) = 600
          /\ \E m \in Range(C12_After(n)) : m.tag = "strong"
    /\ \E n \in Range(C12_Spans) :
          /\ C12_Number(C12_FontWeight(n)) = 500
          /\ HasAttr(n, "class")
          /\ \E m \in Range(C12_After(n)) : m.tag = "span" /\ m.attrs = <<>>

\* C13: the returned course has the key zeiten_html exactly when the schedule
\* markup of this run is not empty, and then the key holds that markup,
\* whether or not the input course had the key.
C13_ZeitenHtmlKey ==
    pc = "done" =>
        /\ result.zeiten_html # Missing <=> times.html # <<>>
        /\ times.html # <<>> => result.zeiten_html = Value(times.html)
        /\ times.html = extract_times(BeautifulSoup(get_or_empty(course.beschreibung)),
                                      get_or_empty(course.ort)).html

C13_Witness ==
    /\ pc = "done"
    /\ course.zeiten_html.k = "str"
    /\ schedule.found
    /\ times.html = <<>>
    /\ result.zeiten_html = Missing

\* the description of the input holds a table.layoutgrid with a labeled row
C14_LabeledTableFound ==
    LET tables == select_layoutgrid(BeautifulSoup(get_or_empty(course.beschreibung)))
    IN  tables # <<>> /\ labeled_rows(tables[1]) # <<>>

\* the zeiten field of the input, whitespace-normalized
C14_Original == Value(normalize_whitespace(get_or_empty(course.zeiten)))

\* C14 as stated: the returned zeiten is the schedule text when a labeled
\* table was found and the normalized zeiten of the input when none was.
C14_ZeitenByTable ==
    pc = "done" =>
        result.zeiten = IF C14_LabeledTableFound THEN Value(times.text) ELSE C14_Original

\* C14 amended: the returned zeiten is the schedule text when that text is
\* not empty, and the normalized zeiten of the input when it is empty, which
\* it is without a table.layoutgrid and can be with one.
C14_ZeitenByText ==
    pc = "done" =>
        /\ result.zeiten = IF times.text # <<>> THEN Value(times.text) ELSE C14_Original
        /\ ~schedule.found => times.text = <<>>
        /\ times.text = extract_times(BeautifulSoup(get_or_empty(course.beschreibung)),
                                      get_or_empty(course.ort)).text

C14_Witness ==
    /\ pc = "done"
    /\ C14_LabeledTableFound
    /\ times.text = <<>>
    /\ result.zeiten = Value(<<"M", "o", " ", "1", "8", " ", "U", "h", "r">>)
    /\ course.zeiten # result.zeiten

\* the course objects of the payload, in their order
C15_Input ==
    IF payload.kind = "list" \/ payload.data_k = "list" THEN payload.data ELSE <<>>

\* C15: transform_payload returns as many courses as the payload has, in
\* their order, each with its fields other than beschreibung,
\* beschreibung_raw, zeiten and zeiten_html as they were and with
\* beschreibung_raw the beschreibung of the input, and it returns every key
\* of the payload other than data as it was.
C15_PassThrough ==
    /\ pc = "done"
          => /\ result.titel = course.titel
             /\ result.ort = course.ort
             /\ result.rest = course.rest
             /\ result.beschreibung_raw = Value(get_or_empty(course.beschreibung))
    /\ pc = "returned"
          => /\ Len(output.data) = Len(C15_Input)
             /\ \A i \in 1..Len(C15_Input) :
                   /\ output.data[i].titel = C15_Input[i].titel
                   /\ output.data[i].ort = C15_Input[i].ort
                   /\ output.data[i].rest = C15_Input[i].rest
                   /\ output.data[i].beschreibung_raw
                        = Value(get_or_empty(C15_Input[i].beschreibung))
             /\ output.meta = payload.meta

C15_Witness ==
    /\ pc = "returned"
    /\ payload.kind = "dict"
    /\ payload.meta # <<>>
    /\ Len(output.data) = 2
    /\ output.data[1].rest # output.data[2].rest
    /\ output.data[1].beschreibung # payload.data[1].beschreibung
    /\ output.data[2].zeiten # payload.data[2].zeiten

\* C16: process_course never raises, whatever of titel, beschreibung, ort and
\* zeiten is absent, null, empty or a string.
C16_NeverRaises == pc # "raised"


\* the rows of the nested per-session tables of the input, in source order
C17_Rows ==
    LET tables == select_layoutgrid(BeautifulSoup(get_or_empty(course.beschreibung)))
        termine == IF tables = <<>> THEN <<>>
                   ELSE SelectSeq(labeled_rows(tables[1]),
                                  LAMBDA r : row_key(r) \in {<<"a", "n", "z", "a", "h", "l">>, <<"t", "e", "r", "m", "i", "n", "e">>})
        nested(r) == find_all(row_value_cell(r), "table")
    IN  Flatten([i \in 1..Len(termine) |->
                    IF nested(termine[i]) = <<>> THEN <<>>
                    ELSE find_all(nested(termine[i])[1], "tr")])

\* the k-th non-empty text fragment of the first cell of the row, <<>> without one
C17_Fragment(row, k) ==
    LET cells == find_all(row, "td")
        parts == IF cells = <<>> THEN <<>> ELSE iter_stripped_strings(cells[1])
    IN  IF Len(parts) >= k THEN parts[k] ELSE <<>>

\* the text of the second cell of the row, <<>> without one
C17_SecondCell(row) ==
    LET cells == find_all(row, "td")
    IN  IF Len(cells) < 2 THEN <<>> ELSE join(<<" ">>, iter_stripped_strings(cells[2]))

\* the item the claim reads from the row; an absent field is written <<>>
C17_Item(row) ==
    [date |-> C17_Fragment(row, 1), time |-> C17_Fragment(row, 2),
     status |-> C17_Fragment(row, 3), location |-> C17_SecondCell(row)]

\* C17 as stated: every row of the nested per-session table yields exactly
\* one detail item, in row order, with date, time and status the first,
\* second and third fragment of the first cell and location the text of the
\* second cell.
C17_ItemPerRow ==
    pc = "clean" =>
        /\ Len(schedule.detail_items) = Len(C17_Rows)
        /\ \A i \in 1..Len(C17_Rows) : schedule.detail_items[i] = C17_Item(C17_Rows[i])

\* C17 amended: every row of the nested per-session table that has a td cell
\* and some text in its first or second cell yields exactly one detail item,
\* in row order, with date, time and status the first, second and third
\* fragment of the first cell and location the text of the second cell; a
\* row of th cells and a row without text yield none.
C17_ItemPerFilledRow ==
    pc = "clean" =>
        LET filled == SelectSeq(C17_Rows, LAMBDA r :
                          C17_Item(r) # [date |-> <<>>, time |-> <<>>,
                                         status |-> <<>>, location |-> <<>>])
        IN  schedule.detail_items = [i \in 1..Len(filled) |-> C17_Item(filled[i])]

C17_Witness ==
    /\ pc = "clean"
    /\ Len(C17_Rows) = 4
    /\ Len(schedule.detail_items) = 2
    /\ schedule.detail_items[1].date = <<"1", "2", ".", "0", "3", ".">>
    /\ schedule.detail_items[2] = [date |-> <<"1", "3", ".", "0", "3", ".">>, time |-> <<>>, status |-> <<>>,
                                   location |-> <<"R", "a", "u", "m", " ", "2">>]


\* C20: the two renderings of extract_times are empty together: the HTML
\* rendering is non-empty exactly when the text rendering is, and
\* process_course never returns a zeiten_html with a zeiten that fell back
\* to the zeiten of the input.
C20_SameEmptiness ==
    /\ pc \in {"clean", "finish"} => (times.html # <<>> <=> times.text # <<>>)
    /\ pc = "done" => (result.zeiten_html.k = "str" => result.zeiten = Value(times.text))

\* a schedule whose only detail item is a location that equals the course
\* location: a heading in the HTML, no line in the text
C20_HeadingWithoutText ==
    /\ pc = "done"
    /\ Len(schedule.detail_items) = 1
    /\ times.text = <<>>
    /\ \E i \in 1..Len(times.html) :
          /\ times.html[i].k = "open"
          /\ times.html[i].attrs = <<[name |-> "class", value |-> <<"v", "h", "s", "-", "t", "i", "m", "e", "s", "-", "h", "e", "a", "d", "i", "n", "g">>]>>
    /\ \A i \in 1..Len(times.html) : times.html[i].tag # "ul"
    /\ result.zeiten_html = Value(times.html)
    /\ result.zeiten = Value(<<"M", "o", " ", "1", "8", " ", "U", "h", "r">>)


\* C18: with --debug no exception leaves parse_course_safe, whatever the
\* fetches and the parser do, and iterate_courses returns only after it has
\* taken every link.
C18_DebugNeverAborts ==
    debug => /\ spc # "aborted"
             /\ spc = "returned" => index = Len(links) + 1

\* with --debug the first link answers 410 and the run ends there, the second
\* link untouched
C18_Aborted ==
    /\ debug
    /\ spc = "aborted"
    /\ Len(links) = 2
    /\ index = 1
    /\ history = <<Response(410, <<>>)>>
    /\ pre_title = Unbound
    /\ errors = <<>>

\* a response that makes fetch try again
C19_Failed(response) == response.exc \/ response.status_code \notin {200, 410}

\* fetch has returned to its caller
C19_Returned == spc \in {"safe_fetched", "parse_fetched"}

\* the requests of a call of fetch and what it returns
C19_Outcome ==
    /\ Len(history) <= 3
    /\ spc = "fetch" => \A i \in 1..Len(history) : C19_Failed(history[i])
    /\ C19_Returned =>
          /\ Len(history) >= 1
          /\ \A i \in 1..(Len(history) - 1) : C19_Failed(history[i])
          /\ LET last == history[Len(history)]
             IN  IF ~last.exc /\ last.status_code = 200 THEN fetched = Value(last.text)
                 ELSE IF ~last.exc /\ last.status_code = 410 THEN fetched = Null
                 ELSE fetched = Null /\ Len(history) = 3

\* C19: fetch makes at most three requests and returns: the text of the
\* first answer with status 200; None at once on a 410; after any other
\* status and after a request exception it tries again, and after three
\* failed requests it returns None.
C19_FetchTerminates == [] C19_Outcome /\ (spc = "fetch" ~> C19_Returned)

C19_Witness ==
    /\ C19_Returned
    /\ Len(history) = 3
    /\ history[1].exc
    /\ history[2].status_code = 500
    /\ history[3].status_code = 200
    /\ fetched = Value(history[3].text)
    /\ fetched.s # <<>>


\* collected[i] is no list, begins with a stop keyword and was dropped by
\* the filter
C21_DroppedStopBlock(i) ==
    /\ collected[i].tag \notin {"ul", "ol", "li", "table"}
    /\ C4_BeginsWithStopWord(collected[i])
    /\ collected[i].id \notin BlockIds(filtered)

\* a block at or before collected[j] survived the filter and begins with a
\* stop keyword
C21_CutBefore(j) ==
    \E k \in 1..j :
        /\ collected[k].id \in BlockIds(filtered)
        /\ C4_BeginsWithStopWord(collected[k])

\* C21: the filter runs before the truncation, so only blocks that survived
\* the filter decide where the description ends: a collected block is kept
\* by the truncation exactly when it survived the filter and no surviving
\* block at or before it begins with a stop keyword.  A block that begins
\* with a stop keyword and was dropped as administrative does not end the
\* description, and the kept blocks after it are rendered.
C21_FilterBeforeTruncation ==
    /\ pc \in {"title", "render", "finish", "done"}
          => \A j \in 1..Len(collected) :
                collected[j].id \in BlockIds(trimmed)
                    <=> (collected[j].id \in BlockIds(filtered) /\ ~C21_CutBefore(j))
    /\ Rendered
          => \A i, j \in 1..Len(collected) :
                (i < j /\ C21_DroppedStopBlock(i)
                       /\ collected[j].id \in BlockIds(filtered) /\ ~C21_CutBefore(j))
                    => collected[j].id \in BlockIds(titled)

C21_Witness ==
    /\ pc = "done"
    /\ \E i, j \in 1..Len(collected) :
          /\ i < j
          /\ C21_DroppedStopBlock(i)
          /\ contains(lower(block_text(collected[i])), <<"i", "b", "a", "n">>)
          /\ collected[j].id \in BlockIds(trimmed)
          /\ collected[j].id \in BlockIds(titled)
          /\ contains(description, decode(collected[j]))

====
